---- MODULE Spec2Model ----
(***************************************************************************)
(* A state-machine model of the short-code service of Lincyaw/tools:       *)
(* the repository (durable store short_codes / click_logs /                *)
(* access_statistics behind GORM, and the Redis cache), the service that   *)
(* orchestrates creation, lookup, deletion and click recording, the        *)
(* redirect handler and the in-memory rate limiter.                        *)
(*                                                                         *)
(* Every request is a process in a slot of `procs`; each backend call      *)
(* (one SQL statement, one Redis command) is one atomic step, so that the  *)
(* interleavings of concurrent requests are those the code allows.         *)
(***************************************************************************)
EXTENDS Integers, Sequences, FiniteSets, TLC

VARIABLES
    shortCodes,   \* table short_codes: sequence of rows, primary key = index
    clickLogs,    \* table click_logs: sequence of rows
    accessStats,  \* table access_statistics: sequence of rows
    cache,        \* Redis: cache key -> {} or {[val, exp]}
    now,          \* wall clock, in ticks
    faultBudget,  \* backend failures that may still be injected
    procs,        \* request slots: slot -> the call in it, running or returned
    created,      \* history: code -> URLs for which a CreateShortCode returned it
    deletedOK,    \* history: codes for which a DeleteShortCode returned success
    clicksOK,     \* history: RecordClick calls begun on a code that had been created
    visitors,     \* RateLimiter.visitors: ip -> {} or {[requests, resetTime]}
    rlNow,        \* the clock the rate limiter reads
    mu,           \* RateLimiter.mu: the goroutines that hold the lock
    rlCalls,      \* goroutine -> its Allow call (0: the sweep), with its locals,
                  \* and the request's way on through the timeout middleware
    rlHist,       \* history: ip -> the window of ip as a client counts it
    unswept       \* the visitor table of a limiter that is given the same
                  \* checks at the same times and is never swept

vars == <<shortCodes, clickLogs, accessStats, cache, now, faultBudget, procs,
          created, deletedOK, clicksOK, visitors, rlNow, rlHist,
          mu, rlCalls, unswept>>

storeVars == <<shortCodes, clickLogs, accessStats, cache, now, faultBudget, procs,
               created, deletedOK, clicksOK>>
rlVars == <<visitors, rlNow, rlHist, mu, rlCalls, unswept>>

-----------------------------------------------------------------------------
(* Bounds of the model *)

NumProcs == 2       \* request slots (requests in flight at once)
MaxTime == 2        \* the clock stops here
MaxFaults == 1      \* backend failures injected in one run
MaxClicks == 2      \* RecordClick calls started in one run
TicksPerHour == 2   \* clock ticks in one hour
rate == 2           \* RateLimiter.rate (the router passes 100)
window == 2         \* RateLimiter.window, in limiter ticks (the router passes one minute)
MaxRlTime == 5      \* the limiter's clock stops here
NumCallers == 3     \* goroutines that call RateLimiter.Allow, once each

(* Program constants *)

defaultCodeLength == 6
maxRetries == 5
MinCodeLen == 4
MaxCodeLen == 50
CacheTTLHours == 24
HourlyLimit == 100
LocationLimit == 50
RecentLimit == 20

Pids == 1..NumProcs

-----------------------------------------------------------------------------
(* Strings are sequences of characters, so that length and alphabet are    *)
(* what the code tests.                                                    *)

Lower == {"a","b","c","d","e","f","g","h","i","j","k","l","m",
          "n","o","p","q","r","s","t","u","v","w","x","y","z"}
Upper == {"A","B","C","D","E","F","G","H","I","J","K","L","M",
          "N","O","P","Q","R","S","T","U","V","W","X","Y","Z"}
Digits == {"0","1","2","3","4","5","6","7","8","9"}
charset == Lower \cup Upper \cup Digits

K1 == <<"t","e","s","t","1">>
G1 == <<"a","B","c","0","1","2">>
G2 == <<"x","Y","z","7","8","9">>
BadShort == <<"a","b","c">>
BadChar == <<"a","b","-","d">>
NoCode == <<>>

\* custom codes a request may carry ("" = none given)
CustomCodes == {K1, BadShort, BadChar}
\* the candidates crypto/rand may produce in this model
GenCodes == {G1, G2}

\* URLs: whether url.Parse succeeds, the scheme it finds, the rest
U1 == [parses |-> TRUE, scheme |-> "https", rest |-> "example.com/a"]
U2 == [parses |-> TRUE, scheme |-> "http", rest |-> "example.com/b"]
UFtp == [parses |-> TRUE, scheme |-> "ftp", rest |-> "example.com/c"]
UBad == [parses |-> FALSE, scheme |-> "", rest |-> "%zz"]
EmptyURL == [parses |-> TRUE, scheme |-> "", rest |-> ""]
\* client addresses, and the request headers that come with them
IPLocal == <<"1","2","7",".","0",".","0",".","1">>
IPPublic == <<"8",".","8",".","8",".","8">>
\* an IPv6 unique local address (fc00::/7), as c.ClientIP() prints it
IPUniqueLocal == <<"f","d","0","0",":",":","1">>
Client(ip, ua, referer) == [ip |-> ip, ua |-> ua, referer |-> referer]
LocalClient == Client(IPLocal, "curl", "")
PublicClient == Client(IPPublic, "Mozilla", "https://example.org/")
Clients == {LocalClient, PublicClient}
ClientIPs == {IPLocal, IPPublic}

\* expires_in of a request, in hours (0: none given)
ExpiresInChoices == {0, 1}

-----------------------------------------------------------------------------
(* Pure functions of the service *)

isValidURL(rawURL) ==
    /\ rawURL.parses
    /\ rawURL.scheme \in {"http", "https"}

\* a format test without the lower length bound
isValidCode_NoMin(code) ==
    /\ Len(code) <= MaxCodeLen
    /\ \A i \in 1..Len(code) : code[i] \in charset

isValidCode(code) ==
    /\ Len(code) >= MinCodeLen
    /\ Len(code) <= MaxCodeLen
    /\ \A i \in 1..Len(code) : code[i] \in charset

\* the prefixes isPrivateIP knows
privateRanges ==
    {<<"1","0",".">>, <<"1","9","2",".","1","6","8",".">>, <<"1","2","7",".">>}
        \cup {<<"1","7","2",".","1",d,".">> : d \in {"6","7","8","9"}}
        \cup {<<"1","7","2",".","2",d,".">> : d \in Digits}
        \cup {<<"1","7","2",".","3",d,".">> : d \in {"0","1"}}

\* a service that asks the geolocation service about every address
isPrivateIP_None(ip) == FALSE

isPrivateIP(ip) ==
    \/ ip = <<>>
    \/ ip = <<":",":","1">>
    \/ ip = <<"l","o","c","a","l","h","o","s","t">>
    \/ \E prefix \in privateRanges :
          Len(ip) >= Len(prefix) /\ SubSeq(ip, 1, Len(prefix)) = prefix

\* model.IPLocation, as "Country/Region/City"
UnknownLocation == "Unknown/Unknown/Unknown"
PrivateLocation == "Private/Local/Local"
\* what ip-api.com may answer for an address
GeoAnswers == {"US/California/Mountain View"}

\* time.Duration(h) * time.Hour, in ticks
Hours(h) == h * TicksPerHour

\* t.Truncate(time.Hour)
TruncateHour(t) == t - (t % TicksPerHour)

CacheTTL == Hours(CacheTTLHours)

-----------------------------------------------------------------------------
(* The durable store.  A nullable column is a set: {} is NULL.             *)

Ids == 1..Len(shortCodes)

\* GORM adds "deleted_at IS NULL" to every query of a model with DeletedAt;
\* the column is read nowhere else, so the model keeps whether it is set
Live(id) == ~shortCodes[id].DeletedAt

NotExpiredAt(row, t) == row.ExpiresAt = {} \/ \E e \in row.ExpiresAt : e > t

\* SELECT ... WHERE code = ? AND deleted_at IS NULL
RowsByCode(code) == {id \in Ids : shortCodes[id].Code = code /\ Live(id)}

\* ... AND (expires_at IS NULL OR expires_at > now)
LiveRowsByCode(code) ==
    {id \in RowsByCode(code) : NotExpiredAt(shortCodes[id], now)}

\* First(): the row with the smallest primary key
FirstOf(S) == CHOOSE id \in S : \A j \in S : id <= j

\* a Redis that keeps an entry after its TTL has run out
CacheLookup_NoTTL(code) == cache[code]

\* Redis GET: the entry, unless its TTL has run out
CacheLookup(code) == {e \in cache[code] : e.exp > now}

\* a CodeExists that asks the cache instead of the store
CodeExists_Cached(code) == CacheLookup(code) # {}

\* repo.CodeExists: SELECT count(*) ... WHERE code = ? AND deleted_at IS NULL
CodeExists(code) == RowsByCode(code) # {}

\* a table without the unique index
UniqueViolation_NoIndex(code) == FALSE

\* the unique index on short_codes.code covers soft-deleted rows too
UniqueViolation(code) == \E id \in Ids : shortCodes[id].Code = code

NewRow(code, url, expiresAt) ==
    [ID |-> Len(shortCodes) + 1, Code |-> code, OriginalURL |-> url,
     ExpiresAt |-> expiresAt, ClickCount |-> 0, LastAccessedAt |-> {},
     DeletedAt |-> FALSE]

\* a Marshal that tags OriginalURL json:"-" as well
Marshal_NoURL(row) ==
    [ID |-> row.ID, Code |-> row.Code, OriginalURL |-> EmptyURL,
     ExpiresAt |-> row.ExpiresAt, ClickCount |-> row.ClickCount,
     LastAccessedAt |-> row.LastAccessedAt]

\* json.Marshal(shortCode): DeletedAt is tagged json:"-" and is left out
Marshal(row) ==
    [ID |-> row.ID, Code |-> row.Code, OriginalURL |-> row.OriginalURL,
     ExpiresAt |-> row.ExpiresAt, ClickCount |-> row.ClickCount,
     LastAccessedAt |-> row.LastAccessedAt]

\* json.Unmarshal into a model.ShortCode: DeletedAt keeps its zero value
Unmarshal(data) ==
    [ID |-> data.ID, Code |-> data.Code, OriginalURL |-> data.OriginalURL,
     ExpiresAt |-> data.ExpiresAt, ClickCount |-> data.ClickCount,
     LastAccessedAt |-> data.LastAccessedAt, DeletedAt |-> FALSE]

\* whether one more backend failure may be injected
FailChoices == IF faultBudget > 0 THEN {FALSE, TRUE} ELSE {FALSE}

Inject(f) == faultBudget' = IF f THEN faultBudget - 1 ELSE faultBudget

-----------------------------------------------------------------------------
(* Request slots *)

Idle ==
    [op |-> "none", pc |-> "idle", code |-> NoCode, url |-> EmptyURL,
     h |-> 0, i |-> 0, exp |-> {}, rec |-> {}, res |-> "", out |-> EmptyURL,
     cause |-> "", afterDel |-> FALSE, afterExp |-> FALSE,
     sawLive |-> FALSE, hit |-> FALSE, ip |-> <<>>, ua |-> "",
     referer |-> "", loc |-> "", bucket |-> 0, existing |-> {}, parent |-> 0,
     start |-> {}, stats |-> {}, seen |-> -1, err |-> "", req |-> {}]

\* a slot takes a new request when it is empty or its call has returned;
\* behind the middleware the handler runs once the chain has passed the
\* request on (c.Next())
Free(p) == procs[p].pc \in {"idle", "done", "next"}

\* the call in slot p goes on
Set(p, r) == procs' = [procs EXCEPT ![p] = r]

\* the call r of slot p returns: the slot keeps the call, its result and
\* what it had seen until the next request takes the slot
Return(p, r, res, cause, out) ==
    Set(p, [r EXCEPT !.pc = "done", !.res = res, !.cause = cause,
                     !.out = out, !.rec = {}, !.i = 0, !.exp = {},
                     !.url = EmptyURL, !.h = 0, !.loc = "", !.bucket = 0,
                     !.existing = {}, !.ip = <<>>, !.ua = "", !.referer = "",
                     !.parent = 0, !.start = {}])

Finish(p, res, cause, out) == Return(p, procs[p], res, cause, out)

-----------------------------------------------------------------------------
(* shortCodeService.CreateShortCode *)

\* model.CreateShortCodeRequest
Request(url, custom, h) == [URL |-> url, CustomCode |-> custom, ExpiresIn |-> h]

\* "Calculate expiration time"
ExpiryFor(h) == IF h > 0 THEN {now + Hours(h)} ELSE {}

\* a rejection that comes only after a query of the store, which may fail
Reject_AfterQuery(p, r, err) ==
    \E f \in FailChoices :
        /\ Inject(f)
        /\ Set(p, [r EXCEPT !.pc = "done",
                            !.res = IF f THEN "failed to check code existence"
                                         ELSE err])

\* "return nil, ErrInvalidURL" / "return nil, ErrInvalidCode": the call
\* returns before any backend is asked; the slot keeps the request
Reject(p, r, err) ==
    /\ Set(p, [r EXCEPT !.pc = "done", !.res = err])
    /\ UNCHANGED faultBudget

\* the request arrives; the URL and the custom code are validated
StartCreate(p, requests) ==
    /\ Free(p)
    /\ \E req \in requests :
         LET url == req.URL
             custom == req.CustomCode
             h == req.ExpiresIn
             r == [Idle EXCEPT !.op = "Create", !.code = custom, !.url = url,
                               !.h = h,
                               !.sawLive = (created[custom] # {}),
                               !.afterDel = (custom \in deletedOK)]
         IN  IF ~isValidURL(url)
               THEN Reject(p, r, "ErrInvalidURL")
             ELSE IF custom # NoCode /\ ~isValidCode(custom)
               THEN Reject(p, r, "ErrInvalidCode")
             ELSE /\ Set(p, [r EXCEPT !.pc = IF custom # NoCode THEN "codeExists"
                                                              ELSE "generate"])
                  /\ UNCHANGED faultBudget
    /\ UNCHANGED <<shortCodes, clickLogs, accessStats, cache, now,
                   created, deletedOK, clicksOK, rlVars>>

\* repo.CodeExists for a custom code
CheckCustomCode(p) ==
    /\ procs[p].pc = "codeExists"
    /\ \E f \in FailChoices :
         /\ Inject(f)
         /\ IF f
              THEN Finish(p, "failed to check code existence", "backend", EmptyURL)
            ELSE IF CodeExists(procs[p].code)
              THEN Finish(p, "ErrCodeExists", "", EmptyURL)
            ELSE Set(p, [procs[p] EXCEPT !.pc = "insert",
                                         !.exp = ExpiryFor(procs[p].h)])
    /\ UNCHANGED <<shortCodes, clickLogs, accessStats, cache, now,
                   created, deletedOK, clicksOK, rlVars>>

\* the strings this model draws candidates and custom codes from
CodePool == CustomCodes \cup GenCodes

\* a generator that draws one character too few
generateRandomCode_Short(length) ==
    {c \in CodePool : Len(c) = length - 1 /\ \A k \in 1..Len(c) : c[k] \in charset}

\* generateRandomCode(length): length characters, each drawn from charset
generateRandomCode(length) ==
    {c \in CodePool : Len(c) = length /\ \A k \in 1..Len(c) : c[k] \in charset}

\* a loop that runs one round more
Exhausted_OneMore(i) == i > maxRetries

\* "for i := 0; i < maxRetries; i++" ends after the round that made i checks
Exhausted(i) == i >= maxRetries

\* the rows of a code, soft-deleted ones too
AllRowsByCode(code) == {id \in Ids : shortCodes[id].Code = code}

\* one round of generateUniqueCode: a candidate, then repo.CodeExists; the
\* slot counts the existence checks made in i, and keeps in existing the rows
\* the accepted candidate had when it was checked
GenerateUniqueCode(p) ==
    /\ procs[p].pc = "generate"
    /\ \E c \in generateRandomCode(defaultCodeLength), f \in FailChoices :
         /\ Inject(f)
         /\ IF f
              THEN Finish(p, "failed to generate unique code", "backend", EmptyURL)
            ELSE IF ~CodeExists(c)
              THEN Set(p, [procs[p] EXCEPT !.pc = "insert", !.code = c,
                                           !.i = @ + 1,
                                           !.existing = AllRowsByCode(c),
                                           !.exp = ExpiryFor(procs[p].h)])
            ELSE IF ~Exhausted(procs[p].i + 1)
              THEN Set(p, [procs[p] EXCEPT !.i = @ + 1])
            ELSE Finish(p, "failed to generate unique code", "max retries", EmptyURL)
    /\ UNCHANGED <<shortCodes, clickLogs, accessStats, cache, now,
                   created, deletedOK, clicksOK, rlVars>>

\* a repository whose writes of a record drop the cached copy of its code
WriteCache_Invalidate(code) == [cache EXCEPT ![code] = {}]

\* the cache after repo.Create or repo.UpdateClickCount wrote a record of
\* the code: both are one SQL statement and issue no Redis command
WriteCache(code) == cache

\* repo.Create: the INSERT, under the unique index on code
InsertRow(code, url, expiresAt) ==
    IF UniqueViolation(code)
      THEN shortCodes' = shortCodes
      ELSE shortCodes' = Append(shortCodes, NewRow(code, url, expiresAt))

Create(p) ==
    /\ procs[p].pc = "insert"
    /\ \E f \in FailChoices :
         /\ Inject(f)
         /\ IF f
              THEN /\ Finish(p, "failed to create short code", "backend", EmptyURL)
                   /\ UNCHANGED <<shortCodes, created>>
            ELSE /\ InsertRow(procs[p].code, procs[p].url, procs[p].exp)
                 /\ IF UniqueViolation(procs[p].code)
                      THEN /\ Finish(p, "failed to create short code",
                                      "duplicate key", EmptyURL)
                           /\ UNCHANGED created
                      ELSE /\ Finish(p, "nil", "", procs[p].url)
                           /\ created' = [created EXCEPT ![procs[p].code] =
                                              @ \cup {procs[p].url}]
    /\ cache' = WriteCache(procs[p].code)
    /\ UNCHANGED <<clickLogs, accessStats, now, deletedOK, clicksOK, rlVars>>

-----------------------------------------------------------------------------
(* shortCodeRepository.GetByCode, the cache-aside read, as its callers     *)
(* GetOriginalURL and RecordClick run it                                   *)

\* GetByCode returns the record to its caller
Returned(p, row, fromCache) ==
    IF procs[p].op = "Get"
      THEN Return(p, [procs[p] EXCEPT !.hit = fromCache], "nil", "", row.OriginalURL)
    ELSE IF procs[p].op = "Redirect"
      THEN Set(p, [procs[p] EXCEPT !.pc = "goRecordClick", !.rec = {row},
                                   !.hit = fromCache])
    ELSE Set(p, [procs[p] EXCEPT !.pc = "updateCount", !.rec = {row},
                                 !.hit = fromCache])

\* GetByCode returns an error to its caller
Failed(p, cause) ==
    IF procs[p].op = "Get"
      THEN Finish(p, "ErrCodeNotFound", cause, EmptyURL)
    ELSE IF procs[p].op = "Redirect"
      THEN Finish(p, "404", cause, EmptyURL)
    ELSE Finish(p, "failed to get short code", cause, EmptyURL)

\* whether a record of the code exists whose expiration time has passed
Expired(code) ==
    \E id \in Ids : /\ shortCodes[id].Code = code
                    /\ ~NotExpiredAt(shortCodes[id], now)

StartGet(p, codes) ==
    /\ Free(p)
    /\ \E code \in codes :
         Set(p, [Idle EXCEPT !.op = "Get", !.pc = "cacheGet", !.code = code,
                             !.sawLive = (created[code] # {}),
                             !.afterDel = (code \in deletedOK),
                             !.afterExp = Expired(code)])
    /\ UNCHANGED <<shortCodes, clickLogs, accessStats, cache, now, faultBudget,
                   created, deletedOK, clicksOK, rlVars>>

\* a GetByCode that returns the error of the cache read
Missed_Fatal(p, err) ==
    IF err = ""
      THEN Set(p, [procs[p] EXCEPT !.pc = "dbQuery"])
      ELSE Finish(p, "ErrCodeNotFound", "backend", EmptyURL)

\* GetByCode after the cache gave no record: err is "" for a miss
\* (redis.Nil), the error of redisClient.Get, or that of json.Unmarshal;
\* all three fall through to "Get from database"
Missed(p, err) == Set(p, [procs[p] EXCEPT !.pc = "dbQuery", !.err = err])

\* redisClient.Get and json.Unmarshal; only a value that was read can fail
\* to deserialize
CacheGet(p) ==
    /\ procs[p].pc = "cacheGet"
    /\ \E f \in FailChoices, err \in {"redis error", "unmarshal error"} :
         /\ Inject(f)
         /\ err = "unmarshal error" => CacheLookup(procs[p].code) # {}
         /\ IF ~f /\ CacheLookup(procs[p].code) # {}
              THEN \E e \in CacheLookup(procs[p].code) :
                       Returned(p, Unmarshal(e.val), TRUE)
              ELSE Missed(p, IF f THEN err ELSE "")
    /\ UNCHANGED <<shortCodes, clickLogs, accessStats, cache, now,
                   created, deletedOK, clicksOK, rlVars>>

\* the SELECT of GetByCode
DbQuery(p) ==
    /\ procs[p].pc = "dbQuery"
    /\ \E f \in FailChoices :
         /\ Inject(f)
         /\ IF f
              THEN Failed(p, "backend")
            ELSE IF LiveRowsByCode(procs[p].code) = {}
              THEN Failed(p, "ErrRecordNotFound")
            ELSE Set(p, [procs[p] EXCEPT !.pc = "cacheSet",
                    !.rec = {shortCodes[FirstOf(LiveRowsByCode(procs[p].code))]}])
    /\ UNCHANGED <<shortCodes, clickLogs, accessStats, cache, now,
                   created, deletedOK, clicksOK, rlVars>>

\* redisClient.Set(ctx, cacheKey, data, 24*time.Hour); its error is dropped
CacheSet(p) ==
    /\ procs[p].pc = "cacheSet"
    /\ \E f \in FailChoices, row \in procs[p].rec :
         /\ Inject(f)
         /\ cache' = IF f THEN cache
                     ELSE [cache EXCEPT ![procs[p].code] =
                              {[val |-> Marshal(row), exp |-> now + CacheTTL]}]
         /\ Returned(p, row, FALSE)
    /\ UNCHANGED <<shortCodes, clickLogs, accessStats, now,
                   created, deletedOK, clicksOK, rlVars>>

-----------------------------------------------------------------------------
(* shortCodeService.RecordClick *)

\* RecordClick calls in flight
InFlight(op) == {p \in Pids : procs[p].op = op /\ procs[p].pc \notin {"idle", "done"}}

StartClick(p, codes, clients) ==
    /\ Free(p)
    /\ \E code \in codes, c \in clients :
         /\ created[code] # {} => clicksOK < MaxClicks
         /\ Set(p, [Idle EXCEPT !.op = "Click", !.pc = "cacheGet", !.code = code,
                                !.ip = c.ip, !.ua = c.ua, !.referer = c.referer,
                                !.sawLive = (created[code] # {}),
                                !.afterDel = (code \in deletedOK),
                                !.afterExp = Expired(code)])
         /\ clicksOK' = IF created[code] # {} THEN clicksOK + 1 ELSE clicksOK
    /\ UNCHANGED <<shortCodes, clickLogs, accessStats, cache, now, faultBudget,
                   created, deletedOK, rlVars>>

\* a counter update that writes back the count it had fetched, plus one
Clicked_FromCopy(row, fetched, t) ==
    [row EXCEPT !.ClickCount = fetched.ClickCount + 1, !.LastAccessedAt = {t}]

\* the row after UPDATE ... SET click_count = click_count + 1,
\* last_accessed_at = now
Clicked(row, fetched, t) ==
    [row EXCEPT !.ClickCount = @ + 1, !.LastAccessedAt = {t}]

\* repo.UpdateClickCount(shortCode.ID): ... WHERE id = ? AND deleted_at IS NULL;
\* an update that matches no row is no error
UpdateClickCount(p) ==
    /\ procs[p].pc = "updateCount"
    /\ \E f \in FailChoices, fetched \in procs[p].rec :
         /\ Inject(f)
         /\ IF f
              THEN /\ Finish(p, "failed to update click count", "backend", EmptyURL)
                   /\ UNCHANGED shortCodes
              ELSE /\ shortCodes' =
                        [id \in Ids |->
                            IF id = fetched.ID /\ Live(id)
                              THEN Clicked(shortCodes[id], fetched, now)
                              ELSE shortCodes[id]]
                   /\ Set(p, [procs[p] EXCEPT !.pc = "logClick"])
    /\ cache' = WriteCache(procs[p].code)
    /\ UNCHANGED <<clickLogs, accessStats, now, created, deletedOK,
                   clicksOK, rlVars>>

\* a RecordClick that takes its counter update back when a later step fails
AfterFailure_RolledBack(id) ==
    [k \in Ids |-> IF k = id /\ shortCodes[k].ClickCount > 0
                     THEN [shortCodes[k] EXCEPT !.ClickCount = @ - 1]
                     ELSE shortCodes[k]]

\* short_codes after a step of RecordClick for record id failed: the steps
\* run in no transaction and the error is returned at once, so the table
\* is as the earlier steps left it
AfterFailure(id) == shortCodes

\* repo.LogClick: INSERT INTO click_logs
LogClick(p) ==
    /\ procs[p].pc = "logClick"
    /\ \E f \in FailChoices, fetched \in procs[p].rec :
         /\ Inject(f)
         /\ IF f
              THEN /\ Finish(p, "failed to log click", "backend", EmptyURL)
                   /\ shortCodes' = AfterFailure(fetched.ID)
                   /\ UNCHANGED clickLogs
              ELSE /\ clickLogs' = Append(clickLogs,
                          [ShortCodeID |-> fetched.ID, IPAddress |-> procs[p].ip,
                           UserAgent |-> procs[p].ua, Referer |-> procs[p].referer,
                           CreatedAt |-> now])
                   /\ Set(p, [procs[p] EXCEPT !.pc = "locate"])
                   /\ UNCHANGED shortCodes
    /\ UNCHANGED <<accessStats, cache, now, created, deletedOK,
                   clicksOK, rlVars>>

\* getIPLocation, then "hourBucket := time.Now().Truncate(time.Hour)"
GetIPLocation(p) ==
    /\ procs[p].pc = "locate"
    /\ \E answer \in (IF isPrivateIP(procs[p].ip)
                         THEN {PrivateLocation}
                         ELSE GeoAnswers \cup {UnknownLocation}) :
         Set(p, [procs[p] EXCEPT !.pc = "statsFind", !.loc = answer,
                                 !.bucket = TruncateHour(now)])
    /\ UNCHANGED <<shortCodes, clickLogs, accessStats, cache, now, faultBudget,
                   created, deletedOK, clicksOK, rlVars>>

\* the rows of access_statistics with the key (short_code_id, ip, hour_bucket)
StatsRows(scid, ip, bucket) ==
    {k \in 1..Len(accessStats) :
        /\ accessStats[k].ShortCodeID = scid
        /\ accessStats[k].IPAddress = ip
        /\ accessStats[k].HourBucket = bucket}

\* RecordAccessStats, first statement: SELECT ... First(&existing)
FindAccessStats(p) ==
    /\ procs[p].pc = "statsFind"
    /\ \E f \in FailChoices, fetched \in procs[p].rec :
         /\ Inject(f)
         /\ LET found == StatsRows(fetched.ID, procs[p].ip, procs[p].bucket)
            IN  IF f
                  THEN Finish(p, "failed to record access stats", "backend", EmptyURL)
                ELSE IF found = {}
                  THEN Set(p, [procs[p] EXCEPT !.pc = "statsCreate"])
                ELSE Set(p, [procs[p] EXCEPT !.pc = "statsUpdate",
                                             !.existing = {FirstOf(found)}])
    /\ UNCHANGED <<shortCodes, clickLogs, accessStats, cache, now, created,
                   deletedOK, clicksOK, rlVars>>

\* RecordAccessStats, "Create new record": INSERT with AccessCount = 1
CreateAccessStats(p) ==
    /\ procs[p].pc = "statsCreate"
    /\ \E f \in FailChoices, fetched \in procs[p].rec :
         /\ Inject(f)
         /\ IF f
              THEN /\ Finish(p, "failed to record access stats", "backend", EmptyURL)
                   /\ UNCHANGED accessStats
              ELSE /\ accessStats' = Append(accessStats,
                          [ShortCodeID |-> fetched.ID, IPAddress |-> procs[p].ip,
                           Location |-> procs[p].loc,
                           HourBucket |-> procs[p].bucket, AccessCount |-> 1])
                   /\ Finish(p, "nil", "", EmptyURL)
    /\ UNCHANGED <<shortCodes, clickLogs, cache, now, created, deletedOK,
                   clicksOK, rlVars>>

\* RecordAccessStats, "Update existing record":
\* UPDATE ... SET access_count = access_count + 1 WHERE id = existing.ID
UpdateAccessStats(p) ==
    /\ procs[p].pc = "statsUpdate"
    /\ \E f \in FailChoices, k \in procs[p].existing :
         /\ Inject(f)
         /\ IF f
              THEN /\ Finish(p, "failed to record access stats", "backend", EmptyURL)
                   /\ UNCHANGED accessStats
              ELSE /\ accessStats' = [accessStats EXCEPT ![k].AccessCount = @ + 1]
                   /\ Finish(p, "nil", "", EmptyURL)
    /\ UNCHANGED <<shortCodes, clickLogs, cache, now, created, deletedOK,
                   clicksOK, rlVars>>

-----------------------------------------------------------------------------
(* shortCodeService.GetStats = shortCodeRepository.GetStats *)

StartStats(p, codes) ==
    /\ Free(p)
    /\ \E code \in codes :
         Set(p, [Idle EXCEPT !.op = "Stats", !.pc = "statsQuery", !.code = code,
                             !.sawLive = (created[code] # {}),
                             !.afterDel = (code \in deletedOK),
                             !.afterExp = Expired(code)])
    /\ UNCHANGED <<shortCodes, clickLogs, accessStats, cache, now, faultBudget,
                   created, deletedOK, clicksOK, rlVars>>

\* model.ShortCodeStats of a row
ShortCodeStats(row) ==
    [Code |-> row.Code, OriginalURL |-> row.OriginalURL,
     ClickCount |-> row.ClickCount, LastAccessedAt |-> row.LastAccessedAt]

\* repo.GetStats: SELECT ... WHERE code = ? AND deleted_at IS NULL, First;
\* the service turns every error into ErrCodeNotFound
GetStats(p) ==
    /\ procs[p].pc = "statsQuery"
    /\ \E f \in FailChoices :
         /\ Inject(f)
         /\ IF f
              THEN Finish(p, "ErrCodeNotFound", "backend", EmptyURL)
            ELSE IF RowsByCode(procs[p].code) = {}
              THEN Finish(p, "ErrCodeNotFound", "short code not found", EmptyURL)
            ELSE LET row == shortCodes[FirstOf(RowsByCode(procs[p].code))]
                 IN  Return(p, [procs[p] EXCEPT !.stats = {ShortCodeStats(row)}],
                            "nil", "", row.OriginalURL)
    /\ UNCHANGED <<shortCodes, clickLogs, accessStats, cache, now,
                   created, deletedOK, clicksOK, rlVars>>

-----------------------------------------------------------------------------
(* shortCodeService.GetDetailedStats = shortCodeRepository.GetDetailedStats: *)
(* the base query and four sub-queries, one statement each                  *)

\* the sequences that hold the records of S once each, in descending order
\* of the column key; records of equal key come in any order
DescOrders(S, key) ==
    {s \in [1..Cardinality(S) -> S] :
        /\ \A i, j \in 1..Cardinality(S) : i < j => s[i][key] >= s[j][key]
        /\ \A i, j \in 1..Cardinality(S) : i # j => s[i] # s[j]}

\* Limit(n)
Take(s, n) == SubSeq(s, 1, IF Len(s) < n THEN Len(s) ELSE n)

\* a time filter that is asked also when hours = 0
InRange_NoUnbounded(t, start) == \E s \in start : t >= s

\* "hour_bucket >= startTime", asked only when hours > 0
InRange(t, start) == start = {} \/ \E s \in start : t >= s

\* the rows of access_statistics of a short code in the time range
StatsOf(scid, start) ==
    {k \in 1..Len(accessStats) :
        /\ accessStats[k].ShortCodeID = scid
        /\ InRange(accessStats[k].HourBucket, start)}

\* SUM(access_count) over rows K of access_statistics
RECURSIVE SumCounts(_)
SumCounts(K) ==
    IF K = {} THEN 0
    ELSE LET k == CHOOSE x \in K : TRUE
         IN  accessStats[k].AccessCount + SumCounts(K \ {k})

\* COUNT(DISTINCT ip_address) over rows K
DistinctIPs(K) == Cardinality({accessStats[k].IPAddress : k \in K})

\* model.HourlyStatItem of one hour bucket
HourlyStatItem(K, b) ==
    LET rows == {k \in K : accessStats[k].HourBucket = b}
    IN  [HourBucket |-> b, AccessCount |-> SumCounts(rows),
         UniqueIPs |-> DistinctIPs(rows)]

\* model.LocationStatItem of one location
LocationStatItem(K, l) ==
    [Location |-> l,
     AccessCount |-> SumCounts({k \in K : accessStats[k].Location = l})]

\* model.RecentAccessItem of a click_logs row j and the location joined to it
RecentAccessItem(j, l, k) ==
    [IPAddress |-> clickLogs[j].IPAddress, UserAgent |-> clickLogs[j].UserAgent,
     AccessTime |-> clickLogs[j].CreatedAt, Location |-> l, log |-> j, joined |-> k]

\* click_logs LEFT JOIN access_statistics for a short code in the time range:
\* a log row comes once for every statistics row of its address and hour,
\* or once with an empty location when there is none
RecentRows(scid, start) ==
    LET logs == {j \in 1..Len(clickLogs) :
                    /\ clickLogs[j].ShortCodeID = scid
                    /\ InRange(clickLogs[j].CreatedAt, start)}
        match(j) == StatsRows(scid, clickLogs[j].IPAddress,
                              TruncateHour(clickLogs[j].CreatedAt))
    IN  {RecentAccessItem(jk[1], accessStats[jk[2]].Location, jk[2]) :
            jk \in {x \in logs \X (1..Len(accessStats)) : x[2] \in match(x[1])}}
        \cup {RecentAccessItem(j, "", 0) : j \in {x \in logs : match(x) = {}}}

StartDetailed(p, codes, hoursChoices) ==
    /\ Free(p)
    /\ \E code \in codes, hours \in hoursChoices :
         Set(p, [Idle EXCEPT !.op = "Detailed", !.pc = "detailedBase",
                             !.code = code, !.h = hours,
                             !.sawLive = (created[code] # {}),
                             !.afterDel = (code \in deletedOK),
                             !.afterExp = Expired(code),
                             !.seen = IF InFlight("Click") = {} THEN clicksOK ELSE -1])
    /\ UNCHANGED <<shortCodes, clickLogs, accessStats, cache, now, faultBudget,
                   created, deletedOK, clicksOK, rlVars>>

\* model.DetailedStats once the base query has answered
DetailedStats(row) ==
    [Code |-> row.Code, OriginalURL |-> row.OriginalURL,
     TotalClicks |-> row.ClickCount, LastAccessedAt |-> row.LastAccessedAt,
     UniqueIPs |-> 0, HourlyStats |-> <<>>, LocationStats |-> <<>>,
     RecentAccesses |-> <<>>]

\* what the service returns when a statement of the repository fails
DetailedError == "ErrCodeNotFound"

\* "Get basic shortcode info", then "Calculate time range"
DetailedBase(p) ==
    /\ procs[p].pc = "detailedBase"
    /\ \E f \in FailChoices :
         /\ Inject(f)
         /\ IF f
              THEN Finish(p, DetailedError, "backend", EmptyURL)
            ELSE IF RowsByCode(procs[p].code) = {}
              THEN Finish(p, "ErrCodeNotFound", "short code not found", EmptyURL)
            ELSE LET row == shortCodes[FirstOf(RowsByCode(procs[p].code))]
                 IN  Set(p, [procs[p] EXCEPT
                        !.pc = "detailedUniqueIPs", !.rec = {row},
                        !.stats = {DetailedStats(row)},
                        !.start = IF procs[p].h > 0
                                    THEN {now - Hours(procs[p].h)} ELSE {}])
    /\ UNCHANGED <<shortCodes, clickLogs, accessStats, cache, now,
                   created, deletedOK, clicksOK, rlVars>>

\* a sub-query of GetDetailedStats: it fails, or it puts one of its
\* possible answers into stats
SubQuery(p, pc, next, answers) ==
    /\ procs[p].pc = pc
    /\ \E f \in FailChoices, row \in procs[p].rec :
         /\ Inject(f)
         /\ IF f
              THEN Return(p, [procs[p] EXCEPT !.stats = {}],
                          DetailedError, "backend", EmptyURL)
            ELSE \E new \in answers :
                   IF next = "done"
                     THEN Return(p, [procs[p] EXCEPT !.stats = {new}],
                                 "nil", "", row.OriginalURL)
                     ELSE Set(p, [procs[p] EXCEPT !.pc = next, !.stats = {new}])
    /\ UNCHANGED <<shortCodes, clickLogs, accessStats, cache, now,
                   created, deletedOK, clicksOK, rlVars>>

\* the primary key of the record the base query found
BaseID(p) == FirstOf({r.ID : r \in procs[p].rec})

\* "Get unique IP count"
DetailedUniqueIPs(p) ==
    LET K == StatsOf(BaseID(p), procs[p].start)
    IN  SubQuery(p, "detailedUniqueIPs", "detailedHourly",
                 {[st EXCEPT !.UniqueIPs = DistinctIPs(K)] : st \in procs[p].stats})

\* "Get hourly statistics": GROUP BY hour_bucket ORDER BY hour_bucket DESC
DetailedHourly(p) ==
    LET K == StatsOf(BaseID(p), procs[p].start)
        items == {HourlyStatItem(K, accessStats[k].HourBucket) : k \in K}
    IN  SubQuery(p, "detailedHourly", "detailedLocation",
                 {[st EXCEPT !.HourlyStats = Take(s, HourlyLimit)] :
                     st \in procs[p].stats, s \in DescOrders(items, "HourBucket")})

\* "Get location statistics": GROUP BY country, region, city
\* ORDER BY access_count DESC
DetailedLocation(p) ==
    LET K == StatsOf(BaseID(p), procs[p].start)
        items == {LocationStatItem(K, accessStats[k].Location) : k \in K}
    IN  SubQuery(p, "detailedLocation", "detailedRecent",
                 {[st EXCEPT !.LocationStats = Take(s, LocationLimit)] :
                     st \in procs[p].stats, s \in DescOrders(items, "AccessCount")})

\* "Get recent accesses (from click logs)": ORDER BY click_logs.created_at DESC
DetailedRecent(p) ==
    LET items == RecentRows(BaseID(p), procs[p].start)
    IN  SubQuery(p, "detailedRecent", "done",
                 {[st EXCEPT !.RecentAccesses = Take(s, RecentLimit)] :
                     st \in procs[p].stats, s \in DescOrders(items, "AccessTime")})

-----------------------------------------------------------------------------
(* shortCodeService.DeleteShortCode = shortCodeRepository.Delete *)

StartDelete(p, codes) ==
    /\ Free(p)
    /\ \E code \in codes :
         Set(p, [Idle EXCEPT !.op = "Delete", !.pc = "invalidate", !.code = code])
    /\ UNCHANGED <<shortCodes, clickLogs, accessStats, cache, now, faultBudget,
                   created, deletedOK, clicksOK, rlVars>>

\* a Delete that returns the error of the invalidation
Invalidated_Fatal(r, err) ==
    IF err # ""
      THEN [r EXCEPT !.pc = "done", !.res = err, !.cause = "backend", !.err = err]
      ELSE [r EXCEPT !.pc = "dbDelete"]

\* Delete after r.InvalidateCache returned err: the error is logged and the
\* call goes on to the database
Invalidated(r, err) == [r EXCEPT !.pc = "dbDelete", !.err = err]

\* r.InvalidateCache: redisClient.Del
InvalidateCache(p) ==
    /\ procs[p].pc = "invalidate"
    /\ \E f \in FailChoices :
         /\ Inject(f)
         /\ cache' = IF f THEN cache ELSE [cache EXCEPT ![procs[p].code] = {}]
         /\ Set(p, Invalidated(procs[p], IF f THEN "redis error" ELSE ""))
    /\ UNCHANGED <<shortCodes, clickLogs, accessStats, now,
                   created, deletedOK, clicksOK, rlVars>>

\* the soft delete: UPDATE short_codes SET deleted_at = now WHERE code = ?
\* AND deleted_at IS NULL
SoftDelete(code) ==
    [id \in Ids |-> IF id \in RowsByCode(code)
                      THEN [shortCodes[id] EXCEPT !.DeletedAt = TRUE]
                      ELSE shortCodes[id]]

\* the rows a delete without the deleted_at IS NULL condition would match
RowsAffected_Deleted(code) == AllRowsByCode(code)

\* result.RowsAffected: the rows the soft delete's UPDATE matches
RowsAffected(code) == RowsByCode(code)

Delete(p) ==
    /\ procs[p].pc = "dbDelete"
    /\ \E f \in FailChoices :
         /\ Inject(f)
         /\ IF f
              THEN /\ Finish(p, "db error", "backend", EmptyURL)
                   /\ UNCHANGED <<shortCodes, deletedOK>>
            ELSE IF RowsAffected(procs[p].code) = {}
              THEN /\ Finish(p, "short code not found", "", EmptyURL)
                   /\ UNCHANGED <<shortCodes, deletedOK>>
            ELSE /\ shortCodes' = SoftDelete(procs[p].code)
                 /\ deletedOK' = deletedOK \cup {procs[p].code}
                 /\ Finish(p, "nil", "", EmptyURL)
    /\ UNCHANGED <<clickLogs, accessStats, cache, now, created, clicksOK, rlVars>>

-----------------------------------------------------------------------------
(* The clock *)

Tick ==
    /\ now < MaxTime
    /\ now' = now + 1
    /\ UNCHANGED <<shortCodes, clickLogs, accessStats, cache, faultBudget, procs,
                   created, deletedOK, clicksOK, rlVars>>

\* the service is left alone for the time of one cache TTL
TickDay ==
    /\ now < CacheTTL
    /\ now' = now + CacheTTL
    /\ UNCHANGED <<shortCodes, clickLogs, accessStats, cache, faultBudget, procs,
                   created, deletedOK, clicksOK, rlVars>>

-----------------------------------------------------------------------------
(* Handler.RedirectToOriginal: GetOriginalURL, then the go statement that  *)
(* starts the click recording, then c.Redirect                             *)

\* handlers that have not yet reached their go statement
Unspawned ==
    {p \in Pids : /\ procs[p].op = "Redirect"
                  /\ procs[p].pc \in {"cacheGet", "dbQuery", "cacheSet", "goRecordClick"}}

\* a redirect request arrives; requests are admitted while a slot is left
\* for the goroutine of every handler in flight
StartRedirect(p, codes, clients) ==
    /\ Free(p)
    /\ Cardinality({q \in Pids : Free(q)}) >= Cardinality(Unspawned) + 2
    /\ clicksOK + Cardinality(Unspawned) < MaxClicks
    /\ \E code \in codes, c \in clients :
         Set(p, [Idle EXCEPT !.op = "Redirect", !.pc = "cacheGet", !.code = code,
                             !.ip = c.ip, !.ua = c.ua, !.referer = c.referer,
                             !.sawLive = (created[code] # {}),
                             !.afterDel = (code \in deletedOK),
                             !.afterExp = Expired(code)])
    /\ UNCHANGED <<shortCodes, clickLogs, accessStats, cache, now, faultBudget,
                   created, deletedOK, clicksOK, rlVars>>

\* go func() { ... }(): the goroutine starts in a slot of its own
GoRecordClick(p) ==
    /\ procs[p].op = "Redirect"
    /\ procs[p].pc = "goRecordClick"
    /\ \E q \in Pids \ {p} :
         /\ Free(q)
         /\ procs' = [procs EXCEPT
                ![p] = [@ EXCEPT !.pc = "redirect"],
                ![q] = [Idle EXCEPT !.op = "Click", !.pc = "readContext",
                                    !.code = procs[p].code, !.parent = p,
                                    !.req = {Client(procs[p].ip, procs[p].ua,
                                                    procs[p].referer)},
                                    !.sawLive = (created[procs[p].code] # {}),
                                    !.afterDel = (procs[p].code \in deletedOK),
                                    !.afterExp = Expired(procs[p].code)]]
    /\ clicksOK' = clicksOK + 1
    /\ UNCHANGED <<shortCodes, clickLogs, accessStats, cache, now, faultBudget,
                   created, deletedOK, rlVars>>

\* what the goroutine can read from the handler's gin context: the request
\* of the handler while the handler runs; once the handler has returned, the
\* context is back in the pool and holds the request of whoever has it now
ContextOf(q) ==
    LET h == procs[q].parent
    IN  IF procs[h].op = "Redirect" /\ ~Free(h)
          THEN {Client(procs[h].ip, procs[h].ua, procs[h].referer)}
          ELSE Clients

\* c.ClientIP(), c.GetHeader("User-Agent"), c.GetHeader("Referer") in the
\* goroutine
ReadContext(q) ==
    /\ procs[q].pc = "readContext"
    /\ \E c \in ContextOf(q) :
         Set(q, [procs[q] EXCEPT !.pc = "cacheGet", !.ip = c.ip, !.ua = c.ua,
                                 !.referer = c.referer])
    /\ UNCHANGED <<shortCodes, clickLogs, accessStats, cache, now, faultBudget,
                   created, deletedOK, clicksOK, rlVars>>

\* a handler that joined its goroutine before it answered
Awaited_Click(p) ==
    {q \in Pids : procs[q].op = "Click" /\ procs[q].parent = p /\ ~Free(q)}

\* the goroutines the handler waits for before it answers: none, c.Redirect
\* follows the go statement
Awaited(p) == {}

\* c.Redirect(http.StatusMovedPermanently, originalURL)
Redirect(p) ==
    /\ procs[p].op = "Redirect"
    /\ procs[p].pc = "redirect"
    /\ \A q \in Awaited(p) : Free(q)
    /\ \E row \in procs[p].rec : Finish(p, "301", "", row.OriginalURL)
    /\ UNCHANGED <<shortCodes, clickLogs, accessStats, cache, now, faultBudget,
                   created, deletedOK, clicksOK, rlVars>>

\* the steps of the handler's own goroutine
HandlerStep(p) ==
    /\ procs[p].op = "Redirect"
    /\ \/ CacheGet(p) \/ DbQuery(p) \/ CacheSet(p)
       \/ GoRecordClick(p)
       \/ Redirect(p)

-----------------------------------------------------------------------------
(* RateLimiter: Allow and cleanupVisitors run under rl.mu, so each is one  *)
(* atomic step                                                             *)

\* time.Time.After
After(t, u) == t > u

\* a limiter that admits one request more than its rate
UnderRate_Inclusive(v) == v.requests <= rate

\* v.requests < rl.rate
UnderRate(v) == v.requests < rate

\* history: the window of a client after one more admission check at rlNow.
\* A window opens with the first check of a client and with the first check
\* after the window before it has elapsed; n counts the checks in the window
\* (up to rate + 2), ok those of them that were admitted, admitted is the
\* answer to the last of them.
Observed(h, admitted) ==
    IF h = {} \/ \E e \in h : rlNow > e.opened + window
      THEN {[opened |-> rlNow, n |-> 1, ok |-> IF admitted THEN 1 ELSE 0,
             admitted |-> admitted, reopened |-> h # {}]}
      ELSE {[e EXCEPT !.n = IF @ < rate + 2 THEN @ + 1 ELSE @,
                      !.ok = IF admitted /\ @ < rate + 2 THEN @ + 1 ELSE @,
                      !.admitted = admitted] : e \in h}

\* the entry of a client after Allow, called at time t, has found the
\* entry vs in the table
Visited(vs, t) ==
    IF vs = {} \/ \E v \in vs : After(t, v.resetTime)
      THEN {[requests |-> 1, resetTime |-> t + window]}
      ELSE IF \E v \in vs : UnderRate(v)
             THEN {[v EXCEPT !.requests = @ + 1] : v \in vs}
             ELSE vs

\* RateLimiter.Allow(ip)
Allow(ip) ==
    LET fresh == visitors[ip] = {}
                   \/ \E v \in visitors[ip] : After(rlNow, v.resetTime)
        under == \E v \in visitors[ip] : UnderRate(v)
    IN  /\ visitors' = [visitors EXCEPT ![ip] =
               IF fresh THEN {[requests |-> 1, resetTime |-> rlNow + window]}
               ELSE IF under THEN {[v EXCEPT !.requests = @ + 1] : v \in @}
               ELSE @]
        /\ rlHist' = [rlHist EXCEPT ![ip] = Observed(@, fresh \/ under)]
        /\ unswept' = [unswept EXCEPT ![ip] = Visited(@, rlNow)]
        /\ UNCHANGED <<rlNow, mu, rlCalls, storeVars>>

\* a sweep that also deletes the entry whose window ends at this instant
Swept_AtReset(t, v) == t >= v.resetTime

\* the sweep's test of an entry: now.After(v.resetTime)
Swept(t, v) == After(t, v.resetTime)

\* one pass of the sweep in RateLimiter.cleanupVisitors
cleanupVisitors ==
    /\ visitors' = [ip \in ClientIPs |->
                       {v \in visitors[ip] : ~Swept(rlNow, v)}]
    /\ UNCHANGED <<rlNow, rlHist, mu, rlCalls, unswept, storeVars>>

\* the limiter's clock advances
RlTick ==
    /\ rlNow < MaxRlTime
    /\ rlNow' = rlNow + 1
    /\ UNCHANGED <<visitors, rlHist, mu, rlCalls, unswept, storeVars>>

\* a middleware that writes the 429 answer and lets the chain go on
TooManyRequests_NoAbort(r) == [r EXCEPT !.pc = "next", !.res = "rate_limit_exceeded"]

\* c.JSON(http.StatusTooManyRequests, ...); c.Abort(); return
TooManyRequests(r) == [r EXCEPT !.pc = "done", !.res = "rate_limit_exceeded"]

\* rateLimitMiddleware: a request of a client arrives; limiter.Allow(ip)
\* decides whether the chain goes on (c.Next()) or the request is answered
rateLimitMiddleware(p) ==
    /\ procs[p].pc \in {"idle", "done"}
    /\ \E ip \in ClientIPs :
         LET fresh == visitors[ip] = {}
                        \/ \E v \in visitors[ip] : After(rlNow, v.resetTime)
             under == \E v \in visitors[ip] : UnderRate(v)
             r == [Idle EXCEPT !.op = "Request", !.ip = ip]
         IN  /\ visitors' = [visitors EXCEPT ![ip] = Visited(@, rlNow)]
             /\ rlHist' = [rlHist EXCEPT ![ip] = Observed(@, fresh \/ under)]
             /\ unswept' = [unswept EXCEPT ![ip] = Visited(@, rlNow)]
             /\ Set(p, IF fresh \/ under THEN [r EXCEPT !.pc = "next"]
                                         ELSE TooManyRequests(r))
    /\ UNCHANGED <<shortCodes, clickLogs, accessStats, cache, now, faultBudget,
                   created, deletedOK, clicksOK, rlNow, mu, rlCalls>>

-----------------------------------------------------------------------------
(* RateLimiter step by step: Allow and the sweep as the goroutines that     *)
(* take rl.mu, work on the visitor table and release rl.mu                 *)

Callers == 1..NumCallers

\* a lock that any number of goroutines may hold (sync.RWMutex.RLock)
Acquirable_Shared(holders) == TRUE

\* rl.mu.Lock() returns only while no goroutine holds the lock
Acquirable(holders) == holders = {}

\* Allow, up to the test: rl.mu.Lock(); now := time.Now();
\* v, exists := rl.visitors[ip]
AllowEnter(g, ip) ==
    /\ rlCalls[g].pc = "idle"
    /\ Acquirable(mu)
    /\ mu' = mu \cup {g}
    /\ rlCalls' = [rlCalls EXCEPT ![g] =
           [pc |-> "locked", ip |-> ip, t |-> rlNow, v |-> visitors[ip],
            res |-> FALSE, go |-> "none", panicChan |-> {}]]
    /\ UNCHANGED <<visitors, rlNow, rlHist, unswept, storeVars>>

\* Allow, from the test on: the new entry or the raised count, the answer,
\* and the deferred rl.mu.Unlock()
AllowLeave(g) ==
    LET c == rlCalls[g]
        fresh == c.v = {} \/ \E v \in c.v : After(c.t, v.resetTime)
        under == \E v \in c.v : UnderRate(v)
    IN  /\ c.pc = "locked"
        /\ visitors' = [visitors EXCEPT ![c.ip] =
               IF fresh THEN {[requests |-> 1, resetTime |-> c.t + window]}
               ELSE IF under THEN {[v EXCEPT !.requests = @ + 1] : v \in c.v}
               ELSE @]
        /\ mu' = mu \ {g}
        /\ rlCalls' = [rlCalls EXCEPT ![g] =
               [c EXCEPT !.pc = "done", !.res = fresh \/ under, !.v = {}]]
        /\ unswept' = [unswept EXCEPT ![c.ip] = Visited(@, c.t)]
        /\ UNCHANGED <<rlNow, rlHist, storeVars>>

\* cleanupVisitors on a tick of its ticker: rl.mu.Lock(); now := time.Now()
SweepEnter ==
    /\ rlCalls[0].pc = "idle"
    /\ Acquirable(mu)
    /\ mu' = mu \cup {0}
    /\ rlCalls' = [rlCalls EXCEPT ![0] = [@ EXCEPT !.pc = "locked", !.t = rlNow]]
    /\ UNCHANGED <<visitors, rlNow, rlHist, unswept, storeVars>>

\* cleanupVisitors: the loop that deletes the expired entries; rl.mu.Unlock()
SweepLeave ==
    /\ rlCalls[0].pc = "locked"
    /\ visitors' = [ip \in ClientIPs |->
                       {v \in visitors[ip] : ~Swept(rlCalls[0].t, v)}]
    /\ mu' = mu \ {0}
    /\ rlCalls' = [rlCalls EXCEPT ![0] = [@ EXCEPT !.pc = "idle"]]
    /\ UNCHANGED <<rlNow, rlHist, unswept, storeVars>>

-----------------------------------------------------------------------------
(* timeoutMiddleware, for a request the rate limiter has admitted.  The    *)
(* middleware runs in the request's goroutine g; go is the position of the *)
(* goroutine it starts for the rest of the chain, panicChan the content of *)
(* the channel of capacity 1; finished has no buffer, so a send on it is   *)
(* one step with the receive in the select.                                *)

\* context.WithTimeout, the two channels, and the go statement
timeoutMiddleware(g) ==
    /\ rlCalls[g].pc = "done" /\ rlCalls[g].res
    /\ rlCalls' = [rlCalls EXCEPT ![g] = [@ EXCEPT !.pc = "select", !.go = "next"]]
    /\ UNCHANGED <<visitors, rlNow, rlHist, mu, unswept, storeVars>>

\* the started goroutine: c.Next() returns and the goroutine comes to
\* "finished <- struct{}{}", or c.Next() panics, the deferred function
\* puts the panic into panicChan and the goroutine ends
GoNext(g) ==
    /\ rlCalls[g].go = "next"
    /\ \/ rlCalls' = [rlCalls EXCEPT ![g] = [@ EXCEPT !.go = "send"]]
       \/ rlCalls' = [rlCalls EXCEPT ![g] =
              [@ EXCEPT !.go = "exited", !.panicChan = {"panic"}]]
    /\ UNCHANGED <<visitors, rlNow, rlHist, mu, unswept, storeVars>>

\* the select of the middleware: ctx.Done() (the timeout has passed; 408
\* and c.Abort()), a panic received from panicChan and raised again, or
\* the receive from finished, which lets the goroutine's send go through
Select(g) ==
    /\ rlCalls[g].pc = "select"
    /\ \/ rlCalls' = [rlCalls EXCEPT ![g] = [@ EXCEPT !.pc = "request_timeout"]]
       \/ /\ rlCalls[g].panicChan # {}
          /\ rlCalls' = [rlCalls EXCEPT ![g] =
                 [@ EXCEPT !.pc = "panic", !.panicChan = {}]]
       \/ /\ rlCalls[g].go = "send"
          /\ rlCalls' = [rlCalls EXCEPT ![g] =
                 [@ EXCEPT !.pc = "finished", !.go = "exited"]]
    /\ UNCHANGED <<visitors, rlNow, rlHist, mu, unswept, storeVars>>

-----------------------------------------------------------------------------
AllCodes == CustomCodes \cup GenCodes \cup {NoCode}

InitStore(budget) ==
    /\ shortCodes = <<>>
    /\ clickLogs = <<>>
    /\ accessStats = <<>>
    /\ cache = [c \in AllCodes |-> {}]
    /\ now = 0
    /\ faultBudget = budget
    /\ procs = [p \in Pids |-> Idle]
    /\ created = [c \in AllCodes |-> {}]
    /\ deletedOK = {}
    /\ clicksOK = 0

InitLimiter ==
    /\ visitors = [ip \in ClientIPs |-> {}]
    /\ rlNow = 0
    /\ rlHist = [ip \in ClientIPs |-> {}]
    /\ unswept = [ip \in ClientIPs |-> {}]
    /\ mu = {}
    /\ rlCalls = [g \in 0..NumCallers |->
                    [pc |-> "idle", ip |-> <<>>, t |-> 0, v |-> {}, res |-> FALSE,
                     go |-> "none", panicChan |-> {}]]

(* Spec: the life of one code.  Requests create the custom code K1 with     *)
(* either URL and with or without an expiration, look it up and delete it, *)
(* in any interleaving, while the clock runs.                              *)

\* backends that may fail
Init == InitStore(MaxFaults) /\ InitLimiter

\* backends that never fail
InitNoFaults == InitStore(0) /\ InitLimiter

Next ==
    \/ \E p \in Pids :
         \/ StartCreate(p, {Request(u, K1, h) : u \in {U1, U2}, h \in ExpiresInChoices})
         \/ CheckCustomCode(p)
         \/ Create(p)
         \/ StartGet(p, {K1})
         \/ CacheGet(p) \/ DbQuery(p) \/ CacheSet(p)
         \/ StartDelete(p, {K1})
         \/ InvalidateCache(p) \/ Delete(p)
    \/ Tick

Spec == Init /\ [][Next]_vars

(* SpecCreate: creation under every kind of request (valid and invalid     *)
(* URLs, custom codes well-formed or not, generated codes), concurrent     *)
(* with deletions.                                                         *)

CreateRequests ==
    {Request(u, c, 0) : u \in {U1, U2}, c \in {K1, NoCode}}
        \cup {Request(U1, c, 0) : c \in {BadShort, BadChar}}
        \cup {Request(u, K1, 0) : u \in {UFtp, UBad}}

NextCreate ==
    \E p \in Pids :
        \/ StartCreate(p, CreateRequests)
        \/ CheckCustomCode(p)
        \/ GenerateUniqueCode(p)
        \/ Create(p)
        \/ StartDelete(p, {K1})
        \/ InvalidateCache(p) \/ Delete(p)

SpecCreate == Init /\ [][NextCreate]_vars

(* SpecClick: clicks on one live code.  The code K1 is created without     *)
(* expiration and never deleted; once it exists, RecordClick calls for it  *)
(* arrive from two clients, in any interleaving, while the clock runs.     *)

\* the codes that have been created
CreatedCodes == {c \in AllCodes : created[c] # {}}

NextClick ==
    \/ \E p \in Pids :
         \/ StartCreate(p, {Request(U1, K1, 0)})
         \/ CheckCustomCode(p)
         \/ Create(p)
         \/ StartClick(p, CreatedCodes, {LocalClient, PublicClient,
                                          Client(IPUniqueLocal, "curl", "")})
         \/ CacheGet(p) \/ DbQuery(p) \/ CacheSet(p)
         \/ UpdateClickCount(p)
         \/ LogClick(p)
         \/ GetIPLocation(p)
         \/ FindAccessStats(p) \/ CreateAccessStats(p) \/ UpdateAccessStats(p)
    \/ Tick

SpecClick == InitNoFaults /\ [][NextClick]_vars

(* SpecRedirect: redirects of one code.  K1 is created, then redirect      *)
(* requests for it arrive from two clients; each handler starts its click  *)
(* recording in a goroutine.  The handlers' own steps are scheduled fairly;*)
(* nothing is assumed of the click recording, which may fail, lag or never *)
(* end.                                                                    *)

NextRedirect ==
    \E p \in Pids :
        \/ Unspawned = {} /\ StartCreate(p, {Request(U1, K1, 0)})
        \/ CheckCustomCode(p)
        \/ Create(p)
        \/ StartRedirect(p, {K1}, Clients)
        \/ CacheGet(p) \/ DbQuery(p) \/ CacheSet(p)
        \/ GoRecordClick(p)
        \/ Redirect(p)
        \/ ReadContext(p)
        \/ UpdateClickCount(p)
        \/ LogClick(p)
        \/ GetIPLocation(p)
        \/ FindAccessStats(p) \/ CreateAccessStats(p) \/ UpdateAccessStats(p)

SpecRedirect ==
    Init /\ [][NextRedirect]_vars /\ \A p \in Pids : WF_vars(HandlerStep(p))

\* the steps of the goroutine the handler started
RecordStep(q) ==
    /\ procs[q].op = "Click"
    /\ \/ ReadContext(q)
       \/ CacheGet(q) \/ DbQuery(q) \/ CacheSet(q)
       \/ UpdateClickCount(q)
       \/ LogClick(q)
       \/ GetIPLocation(q)
       \/ FindAccessStats(q) \/ CreateAccessStats(q) \/ UpdateAccessStats(q)

\* redirects with no backend failure; the scheduler runs every goroutine
\* that can run, and no backend call blocks
SpecRecord ==
    /\ InitNoFaults /\ [][NextRedirect]_vars
    /\ \A p \in Pids : WF_vars(HandlerStep(p)) /\ WF_vars(RecordStep(p))

(* SpecStats: reads of the statistics of one code.  K1 is created with or *)
(* without an expiration and is deleted; GetStats and GetDetailedStats    *)
(* read it while the clock runs and a backend may fail.                   *)

NextStats ==
    \/ \E p \in Pids :
         \/ StartCreate(p, {Request(U1, K1, h) : h \in ExpiresInChoices})
         \/ CheckCustomCode(p)
         \/ Create(p)
         \/ StartStats(p, {K1})
         \/ GetStats(p)
         \/ StartDetailed(p, {K1}, {0, 1})
         \/ DetailedBase(p)
         \/ DetailedUniqueIPs(p) \/ DetailedHourly(p)
         \/ DetailedLocation(p) \/ DetailedRecent(p)
         \/ StartDelete(p, {K1})
         \/ InvalidateCache(p) \/ Delete(p)
    \/ Tick

SpecStats == Init /\ [][NextStats]_vars

(* SpecDetailed: the detailed statistics of clicks.  K1 is created without *)
(* expiration; clicks on it are recorded for one client, all in one hour, *)
(* while GetDetailedStats reads it; no backend fails.                     *)

NextDetailed ==
    \E p \in Pids :
        \/ StartCreate(p, {Request(U1, K1, 0)})
        \/ CheckCustomCode(p)
        \/ Create(p)
        \/ StartClick(p, CreatedCodes, {PublicClient})
        \/ CacheGet(p) \/ DbQuery(p) \/ CacheSet(p)
        \/ UpdateClickCount(p)
        \/ LogClick(p)
        \/ GetIPLocation(p)
        \/ FindAccessStats(p) \/ CreateAccessStats(p) \/ UpdateAccessStats(p)
        \/ StartDetailed(p, CreatedCodes, {0, 1})
        \/ DetailedBase(p)
        \/ DetailedUniqueIPs(p) \/ DetailedHourly(p)
        \/ DetailedLocation(p) \/ DetailedRecent(p)

SpecDetailed == InitNoFaults /\ [][NextDetailed]_vars

(* SpecLookback: the detailed statistics over a time range.  Clicks of one *)
(* client on K1 are recorded at any time of an hour; a day later, or at    *)
(* once, GetDetailedStats reads them with hours = 0 or hours = 24, one     *)
(* call at a time and while no click is being recorded; the recording of   *)
(* a click takes less than a tick of the clock, and no backend fails.      *)

NextLookback ==
    \/ \E p \in Pids :
         \/ StartCreate(p, {Request(U1, K1, 0)})
         \/ CheckCustomCode(p)
         \/ Create(p)
         \/ InFlight("Detailed") = {} /\ StartClick(p, CreatedCodes, {LocalClient})
         \/ CacheGet(p) \/ DbQuery(p) \/ CacheSet(p)
         \/ UpdateClickCount(p)
         \/ LogClick(p)
         \/ GetIPLocation(p)
         \/ FindAccessStats(p) \/ CreateAccessStats(p) \/ UpdateAccessStats(p)
         \/ /\ InFlight("Click") = {} /\ InFlight("Detailed") = {}
            /\ StartDetailed(p, CreatedCodes, {0, CacheTTLHours})
         \/ DetailedBase(p)
         \/ DetailedUniqueIPs(p) \/ DetailedHourly(p)
         \/ DetailedLocation(p) \/ DetailedRecent(p)
    \/ InFlight("Click") = {} /\ Tick
    \/ InFlight("Click") = {} /\ TickDay

SpecLookback == InitNoFaults /\ [][NextLookback]_vars

\* click recording beside every other operation of the service, with a
\* backend failure: one code, one client, RecordClick calls on the created
\* code, and creations, lookups, statistics reads and deletions of the code
NextClickDelete ==
    \E p \in Pids :
        \/ StartCreate(p, {Request(U1, K1, 0)})
        \/ CheckCustomCode(p)
        \/ Create(p)
        \/ StartClick(p, CreatedCodes, {LocalClient})
        \/ CacheGet(p) \/ DbQuery(p) \/ CacheSet(p)
        \/ UpdateClickCount(p)
        \/ LogClick(p)
        \/ GetIPLocation(p)
        \/ FindAccessStats(p) \/ CreateAccessStats(p) \/ UpdateAccessStats(p)
        \/ StartGet(p, {K1})
        \/ StartStats(p, {K1})
        \/ GetStats(p)
        \/ StartDetailed(p, {K1}, {0})
        \/ DetailedBase(p)
        \/ DetailedUniqueIPs(p) \/ DetailedHourly(p)
        \/ DetailedLocation(p) \/ DetailedRecent(p)
        \/ StartDelete(p, {K1})
        \/ InvalidateCache(p) \/ Delete(p)

SpecClickDelete == Init /\ [][NextClickDelete]_vars

\* lookups of one code over more than the time of a cache TTL: the code is
\* created with or without an expiration, looked up and deleted
NextCache ==
    \/ \E p \in Pids :
         \/ StartCreate(p, {Request(U1, K1, h) : h \in ExpiresInChoices})
         \/ CheckCustomCode(p)
         \/ Create(p)
         \/ StartGet(p, {K1})
         \/ CacheGet(p) \/ DbQuery(p) \/ CacheSet(p)
         \/ StartDelete(p, {K1})
         \/ InvalidateCache(p) \/ Delete(p)
    \/ Tick
    \/ TickDay

SpecCache == Init /\ [][NextCache]_vars

(* SpecLimiter: admission checks of two clients, the sweep and the clock   *)

NextLimiter ==
    \/ \E ip \in ClientIPs : Allow(ip)
    \/ cleanupVisitors
    \/ RlTick

SpecLimiter == Init /\ [][NextLimiter]_vars


\* SpecRouter: requests of two clients pass the rate limiter on their way
\* to the handlers that create, read and delete the code K1, all within
\* one window of the limiter; no backend fails
NextRouter ==
    \E p \in Pids :
         \/ rateLimitMiddleware(p)
         \/ procs[p].pc = "next" /\ StartCreate(p, {Request(U1, K1, 0)})
         \/ CheckCustomCode(p)
         \/ Create(p)
         \/ procs[p].pc = "next" /\ StartGet(p, {K1})
         \/ CacheGet(p) \/ DbQuery(p) \/ CacheSet(p)
         \/ procs[p].pc = "next" /\ StartDelete(p, {K1})
         \/ InvalidateCache(p) \/ Delete(p)

SpecRouter == InitNoFaults /\ [][NextRouter]_vars

\* SpecLock: NumCallers goroutines call Allow once each, for either client,
\* beside the sweep and the clock
NextLock ==
    \/ \E g \in Callers : (\E ip \in ClientIPs : AllowEnter(g, ip)) \/ AllowLeave(g)
    \/ SweepEnter
    \/ SweepLeave
    \/ RlTick

SpecLock == Init /\ [][NextLock]_vars

\* SpecTimeout: NumCallers requests pass the rate limiter and, when
\* admitted, the timeout middleware.  Every goroutine that can run is run,
\* and a select that has a ready case takes one; the timeout of a request
\* may pass at any time after the middleware has started its goroutine.
NextTimeout ==
    \E g \in Callers :
        \/ \E ip \in ClientIPs : AllowEnter(g, ip)
        \/ AllowLeave(g)
        \/ timeoutMiddleware(g)
        \/ GoNext(g)
        \/ Select(g)

SpecTimeout ==
    /\ Init /\ [][NextTimeout]_vars
    /\ \A g \in Callers :
          /\ WF_vars(AllowLeave(g)) /\ WF_vars(timeoutMiddleware(g))
          /\ WF_vars(GoNext(g)) /\ WF_vars(Select(g))

-----------------------------------------------------------------------------
(* Properties *)

Done(p, op) == procs[p].pc = "done" /\ procs[p].op = op

NoFailureYet == faultBudget = MaxFaults

\* slot p's call returns in this step
Returns(p, op) ==
    /\ procs[p].pc \notin {"idle", "done"}
    /\ procs[p].op = op
    /\ procs'[p].pc = "done"

\* C1: once DeleteShortCode(C) has returned success, every GetOriginalURL(C)
\* issued later fails with NotFound (here: with no backend failure at all).
C1_NotFoundAfterDelete ==
    \A p \in Pids :
        (NoFailureYet /\ Done(p, "Get") /\ procs[p].afterDel)
            => procs[p].res = "ErrCodeNotFound"

\* C2: a GetOriginalURL(C) issued after C's expiration time has passed fails
\* with NotFound, whatever lookups came before (here: with no backend failure).
C2_NotFoundAfterExpiry ==
    \A p \in Pids :
        (NoFailureYet /\ Done(p, "Get") /\ procs[p].afterExp)
            => procs[p].res = "ErrCodeNotFound"

\* C3: a GetOriginalURL(C) issued after CreateShortCode(url) returned C, and
\* returning while C is neither expired nor deleted, returns exactly url,
\* whether it was served from the cache or from the store (a lookup whose
\* store query fails in the backend aside).
C3_RoundTrip ==
    [][\A p \in Pids :
          (/\ Returns(p, "Get")
           /\ procs'[p].sawLive
           /\ LiveRowsByCode(procs[p].code) # {}
           /\ procs'[p].cause # "backend")
              => /\ procs'[p].res = "nil"
                 /\ created[procs[p].code] = {procs'[p].out}]_vars

\* C3 witness: a lookup of a live code was served from the cache
C3_Witness ==
    \E p \in Pids :
        /\ Done(p, "Get") /\ procs[p].res = "nil" /\ procs[p].hit
        /\ procs[p].sawLive
        /\ LiveRowsByCode(procs[p].code) # {}
        /\ procs[p].out = U2

\* C4: at most one non-deleted short_codes row for any code value
C4_CodeUnique ==
    \A c \in AllCodes : Cardinality(RowsByCode(c)) <= 1

\* C4 witness: two creations raced for one code and the store refused the
\* second insert
C4_Witness ==
    \E p \in Pids :
        /\ Done(p, "Create") /\ procs[p].cause = "duplicate key"
        /\ procs[p].code \notin deletedOK
        /\ Cardinality(RowsByCode(procs[p].code)) = 1

\* C5: a creation whose insert violates the uniqueness constraint, after it
\* passed the existence check at the same time as another creation of the
\* code, fails with CodeAlreadyExists.
C5_ConflictIsCodeExists ==
    \A p \in Pids :
        (/\ Done(p, "Create")
         /\ procs[p].cause = "duplicate key"
         /\ procs[p].code \notin deletedOK)
            => procs[p].res = "ErrCodeExists"

\* C6: a creation with a valid URL and custom code K, issued after a creation
\* of K succeeded and with K not deleted, fails with CodeAlreadyExists, and
\* leaves the table short_codes as it was (a creation whose existence check
\* fails in the backend aside).
C6_DuplicateRejected ==
    [][\A p \in Pids :
          (/\ Returns(p, "Create")
           /\ procs'[p].sawLive
           /\ procs[p].code \notin deletedOK
           /\ procs'[p].cause # "backend")
              => /\ procs'[p].res = "ErrCodeExists"
                 /\ shortCodes' = shortCodes]_vars

\* C6 witness: a second creation of a live custom code was rejected
C6_Witness ==
    \E p \in Pids :
        /\ Done(p, "Create") /\ procs[p].res = "ErrCodeExists"
        /\ procs[p].sawLive
        /\ procs[p].code = K1
        /\ K1 \notin deletedOK


\* the click_logs rows of a short code and a client address
LogsOf(id, ip) ==
    {j \in 1..Len(clickLogs) :
        clickLogs[j].ShortCodeID = id /\ clickLogs[j].IPAddress = ip}

\* C7: once N RecordClick calls for one code from one client address, all in
\* the first hour bucket, have returned, access_statistics holds exactly one
\* row for that (code, address, hour), and its access count is N.
C7_OneRowPerKey ==
    (InFlight("Click") = {} /\ TruncateHour(now) = 0) =>
        \A id \in Ids, ip \in {IPLocal, IPPublic} :
            LogsOf(id, ip) # {} =>
                \E k \in StatsRows(id, ip, 0) :
                    /\ StatsRows(id, ip, 0) = {k}
                    /\ accessStats[k].AccessCount = Cardinality(LogsOf(id, ip))

\* RecordClick calls on a created code that have not yet updated the counter
BeforeUpdate ==
    {p \in InFlight("Click") :
        /\ procs[p].sawLive
        /\ procs[p].pc \in {"cacheGet", "dbQuery", "cacheSet", "updateCount"}}

\* C8: with no backend failure, the click counter of a live code is the
\* number of RecordClick calls begun on it less those still ahead of their
\* counter update: N calls, once returned, have raised the counter by N.
C8_NoLostIncrement ==
    \A id \in LiveRowsByCode(K1) :
        shortCodes[id].ClickCount = clicksOK - Cardinality(BeforeUpdate)

\* C8 witness: two RecordClick calls ran at the same time and both have
\* updated the counter
C8_Witness ==
    /\ \A p \in Pids : procs[p].op = "Click" /\ procs[p].pc = "logClick"
    /\ \E id \in LiveRowsByCode(K1) : shortCodes[id].ClickCount = NumProcs

\* C9: in a window of a client the first rate admission checks are admitted
\* and every later one, the (rate + 1)-th first, is rejected; the first check
\* after the window has elapsed opens a window and is admitted.
C9_WindowAdmission ==
    \A ip \in ClientIPs : \A e \in rlHist[ip] : e.admitted <=> e.n <= rate

\* C9 witness: one client has been rejected at its (rate + 1)-th check while
\* another was admitted on the first check after its window had elapsed
C9_Witness ==
    \E ip1, ip2 \in ClientIPs :
        /\ \E e \in rlHist[ip1] : e.n = rate + 1 /\ ~e.admitted
        /\ \E e \in rlHist[ip2] : e.reopened /\ e.n = 1 /\ e.admitted

\* C10: the answer of a redirect is that of its GetOriginalURL (301 with the
\* URL it returned, 404 when it failed), and every redirect request is
\* answered whatever its click recording does: fail, lag, or never end.
C10_RedirectNotBlocked ==
    /\ [][\A p \in Pids :
            Returns(p, "Redirect") =>
                IF procs[p].pc = "redirect"
                  THEN /\ procs'[p].res = "301"
                       /\ \E row \in procs[p].rec : procs'[p].out = row.OriginalURL
                  ELSE procs'[p].res = "404" /\ procs'[p].out = EmptyURL]_vars
    /\ \A p \in Pids :
          (procs[p].op = "Redirect" /\ ~Free(p)) ~> Done(p, "Redirect")

\* C10 witness: a redirect has been answered with 301 while the click
\* recording it started is still running
C10_Witness ==
    \E p \in Pids, q \in Pids :
        /\ Done(p, "Redirect") /\ procs[p].res = "301" /\ procs[p].out = U1
        /\ procs[q].op = "Click" /\ procs[q].parent = p /\ ~Free(q)

\* C11: a GetStats or GetDetailedStats issued after the expiration time of
\* the code's record has passed answers as for a code that does not exist,
\* with ErrCodeNotFound (here: with no backend failure at all).
C11_ExpiredIsAbsent ==
    \A p \in Pids :
        (/\ NoFailureYet
         /\ Done(p, "Stats") \/ Done(p, "Detailed")
         /\ procs[p].afterExp)
            => procs[p].res = "ErrCodeNotFound"

\* C12: a GetDetailedStats with hours = 0, issued after the one click on a
\* fresh code was fully recorded, and returning with no other click begun,
\* reports total_clicks = 1, unique_ips = 1 and one hourly entry with
\* access_count = 1.
C12_OneClickStats ==
    [][\A p \in Pids :
          (/\ Returns(p, "Detailed")
           /\ procs[p].h = 0
           /\ procs[p].seen = 1
           /\ clicksOK = 1)
              => /\ procs'[p].res = "nil"
                 /\ \E st \in procs'[p].stats :
                       /\ st.TotalClicks = 1
                       /\ st.UniqueIPs = 1
                       /\ Len(st.HourlyStats) = 1
                       /\ st.HourlyStats[1].AccessCount = 1]_vars

\* C12 witness: detailed statistics were returned after exactly one click
C12_Witness ==
    \E p \in Pids :
        /\ Done(p, "Detailed") /\ procs[p].res = "nil"
        /\ procs[p].seen = 1 /\ clicksOK = 1
        /\ \E st \in procs[p].stats :
              st.TotalClicks = 1 /\ Len(st.RecentAccesses) = 1

\* C13: a CreateShortCode without custom code that succeeds returns a code of
\* exactly 6 characters of [A-Za-z0-9] that had no record when its existence
\* check ran.
C13_GeneratedCode ==
    [][\A p \in Pids :
          (/\ Returns(p, "Create")
           /\ procs[p].i > 0
           /\ procs'[p].res = "nil")
              => /\ Len(procs'[p].code) = 6
                 /\ \A k \in 1..Len(procs'[p].code) :
                       procs'[p].code[k] \in Lower \cup Upper \cup Digits
                 /\ procs[p].existing = {}]_vars

\* C13 witness: two creations without custom code succeeded, with
\* different codes
C13_Witness ==
    \E p \in Pids :
        /\ Done(p, "Create") /\ procs[p].res = "nil"
        /\ procs[p].code \in GenCodes
        /\ \E q \in Pids \ {p} : Done(q, "Create") /\ procs[q].code \in GenCodes
                                  /\ procs[q].res = "nil"
                                  /\ procs[q].code # procs[p].code

\* C16: a CreateShortCode without custom code whose candidates all exist
\* makes exactly 5 existence checks, then fails with the error of
\* generateUniqueCode and leaves short_codes as it was.
C16_GenerationExhausted ==
    [][\A p \in Pids :
          procs[p].pc = "generate" =>
              /\ procs[p].i < 5
              /\ (Returns(p, "Create") /\ procs'[p].cause = "max retries")
                    => /\ procs[p].i = 4
                       /\ procs'[p].res = "failed to generate unique code"
                       /\ shortCodes' = shortCodes
              /\ (procs[p].i = 4 /\ procs'[p] # procs[p])
                    => procs'[p].pc \in {"insert", "done"}]_vars

\* C16 witness: a creation gave up after all of its candidates existed
C16_Witness ==
    \E p \in Pids :
        /\ Done(p, "Create") /\ procs[p].cause = "max retries"
        /\ \A c \in GenCodes : RowsByCode(c) # {}

\* the step in which slot p takes a CreateShortCode request
Arrives(p) ==
    /\ Free(p)
    /\ procs'[p] # procs[p]
    /\ procs'[p].op = "Create"

\* C14: a CreateShortCode with a valid URL and a non-empty custom code that
\* is not 4 to 50 characters of [A-Za-z0-9] fails with ErrInvalidCode in the
\* step it arrives, and no row is written.
C14_InvalidCodeFormat ==
    [][\A p \in Pids :
          (/\ Arrives(p)
           /\ procs'[p].url.parses /\ procs'[p].url.scheme \in {"http", "https"}
           /\ procs'[p].code # <<>>
           /\ ~(/\ Len(procs'[p].code) \in 4..50
                /\ \A k \in 1..Len(procs'[p].code) :
                      procs'[p].code[k] \in Lower \cup Upper \cup Digits))
              => /\ procs'[p].pc = "done"
                 /\ procs'[p].res = "ErrInvalidCode"
                 /\ shortCodes' = shortCodes]_vars

\* C14 witness: requests with a code too short and with a code holding a
\* character outside the alphabet have both been rejected
C14_Witness ==
    \E p, q \in Pids :
        /\ Done(p, "Create") /\ procs[p].res = "ErrInvalidCode"
        /\ procs[p].code = BadShort
        /\ Done(q, "Create") /\ procs[q].res = "ErrInvalidCode"
        /\ procs[q].code = BadChar

\* C15: a CreateShortCode with an invalid URL, or with a malformed custom
\* code, returns its validation error in the step it arrives: no backend is
\* asked (so none can fail), and the store and the cache are unchanged.
C15_RejectedWithoutStorage ==
    [][\A p \in Pids :
          (/\ Arrives(p)
           /\ \/ ~isValidURL(procs'[p].url)
              \/ procs'[p].code # NoCode /\ ~isValidCode(procs'[p].code))
              => /\ procs'[p].pc = "done"
                 /\ procs'[p].res \in {"ErrInvalidURL", "ErrInvalidCode"}
                 /\ UNCHANGED <<shortCodes, clickLogs, accessStats, cache,
                                faultBudget>>]_vars

\* C15 witness: a request with an invalid URL was rejected while a record
\* of its custom code exists
C15_Witness ==
    \E p \in Pids :
        /\ Done(p, "Create") /\ procs[p].res = "ErrInvalidURL"
        /\ RowsByCode(procs[p].code) # {}

\* C17: a DeleteShortCode of a code that has no non-deleted record does not
\* succeed and changes no row of short_codes; when its delete statement
\* itself did not fail it returns "short code not found" (404 not_found).
\* A second delete after a successful one is such a call.
C17_DeleteAbsent ==
    [][\A p \in Pids :
          (Returns(p, "Delete") /\ RowsByCode(procs[p].code) = {})
              => /\ shortCodes' = shortCodes
                 /\ procs'[p].res # "nil"
                 /\ faultBudget' = faultBudget
                       => procs'[p].res = "short code not found"]_vars

\* C17 witness: a delete of a code deleted before, with no live record,
\* has returned "short code not found"
C17_Witness ==
    \E p \in Pids :
        /\ Done(p, "Delete") /\ procs[p].res = "short code not found"
        /\ procs[p].code \in deletedOK
        /\ AllRowsByCode(procs[p].code) # {}
        /\ RowsByCode(procs[p].code) = {}

\* the sub-queries of GetDetailedStats, by the position of the call
SubQueries == {"detailedUniqueIPs", "detailedHourly", "detailedLocation",
               "detailedRecent"}

\* C18: a call whose soft delete (DeleteShortCode) or whose sub-query
\* (GetDetailedStats) fails in the durable store returns an error that is
\* neither success nor the error of a code that was not found.
C18_StorageErrorReported ==
    [][\A p \in Pids :
          /\ (/\ Returns(p, "Detailed") /\ procs[p].pc \in SubQueries
               /\ faultBudget' < faultBudget)
                 => procs'[p].res \notin {"nil", "ErrCodeNotFound"}
          /\ (/\ Returns(p, "Delete") /\ procs[p].pc = "dbDelete"
               /\ faultBudget' < faultBudget)
                 => procs'[p].res \notin {"nil", "short code not found"}]_vars

\* C19: DeleteShortCode first invalidates the cache entry and, whether or
\* not that failed, goes on to the soft delete without having written to
\* short_codes; the call then returns what the soft delete alone gives:
\* success exactly when the statement did not fail and matched a row.
C19_InvalidationNotFatal ==
    [][\A p \in Pids :
          /\ (procs[p].pc = "invalidate" /\ procs'[p] # procs[p])
                => /\ procs'[p].pc = "dbDelete"
                   /\ shortCodes' = shortCodes
          /\ Returns(p, "Delete")
                => /\ procs[p].pc = "dbDelete"
                   /\ procs'[p].res = "nil"
                         <=> /\ faultBudget' = faultBudget
                             /\ RowsByCode(procs[p].code) # {}
                   /\ procs'[p].res = "nil"
                         => \A id \in RowsByCode(procs[p].code) :
                               shortCodes'[id].DeletedAt
                   /\ (faultBudget' = faultBudget
                          /\ RowsByCode(procs[p].code) = {})
                         => procs'[p].res = "short code not found"]_vars

\* C19 witness: a delete whose cache invalidation failed has soft-deleted the
\* record and returned success, the cached copy still in place
C19_Witness ==
    \E p \in Pids :
        /\ Done(p, "Delete") /\ procs[p].err # "" /\ procs[p].res = "nil"
        /\ RowsByCode(procs[p].code) = {}
        /\ CacheLookup(procs[p].code) # {}

\* no GetOriginalURL is between its call and its return
NoLookupInFlight == \A p \in Pids : procs[p].op = "Get" => Free(p)

\* C20: once a DeleteShortCode of a code has returned success and no lookup
\* is in flight any more, the cache holds no entry of the code and the
\* store no live record of it, the two things a later lookup can be
\* answered from (here: with no backend failure at all).
C20_PurgedAfterDelete ==
    \A code \in deletedOK :
        (NoFailureYet /\ NoLookupInFlight)
            => CacheLookup(code) = {} /\ RowsByCode(code) = {}

\* C21: for every record of short_codes, deleted or not, the click counter
\* is at least the number of its click_logs rows, which is at least the sum
\* of the access counts of its access_statistics rows.
C21_CounterCoversLogs ==
    \A id \in Ids :
        LET logs == {j \in 1..Len(clickLogs) : clickLogs[j].ShortCodeID = id}
        IN  /\ shortCodes[id].ClickCount >= Cardinality(logs)
            /\ Cardinality(logs) >= SumCounts(StatsOf(id, {}))

\* C21, for the records that are not deleted: the click counter of every
\* non-deleted record is at least the number of its click_logs rows; and for
\* every record, deleted or not, the number of its click_logs rows is at
\* least the sum of the access counts of its access_statistics rows.
C21_LiveCounterCoversLogs ==
    \A id \in Ids :
        LET logs == {j \in 1..Len(clickLogs) : clickLogs[j].ShortCodeID = id}
        IN  /\ Live(id) => shortCodes[id].ClickCount >= Cardinality(logs)
            /\ Cardinality(logs) >= SumCounts(StatsOf(id, {}))

\* C21 witness: a RecordClick has failed in a backend, and the live record
\* has counted two clicks, one of them logged and none of them yet in
\* access_statistics
C21_Witness ==
    /\ \E p \in Pids : Done(p, "Click") /\ procs[p].cause = "backend"
    /\ \E id \in RowsByCode(K1) :
          /\ shortCodes[id].ClickCount = 2
          /\ Cardinality({j \in 1..Len(clickLogs) :
                             clickLogs[j].ShortCodeID = id}) = 1
          /\ SumCounts(StatsOf(id, {})) = 0

\* C22: the click_logs row a redirect's goroutine writes carries the client
\* IP, user agent and referer of the request that started the goroutine
\* (req), and the access_statistics row it writes or raises carries that IP.
C22_ClickCarriesRequest ==
    [][\A q \in Pids : \A r \in procs[q].req :
          procs'[q] # procs[q] =>
            /\ (procs[q].pc = "logClick" /\ Len(clickLogs') > Len(clickLogs))
                  => LET row == clickLogs'[Len(clickLogs')]
                     IN  /\ row.IPAddress = r.ip
                         /\ row.UserAgent = r.ua
                         /\ row.Referer = r.referer
            /\ (procs[q].pc = "statsCreate"
                   /\ Len(accessStats') > Len(accessStats))
                  => accessStats'[Len(accessStats')].IPAddress = r.ip
            /\ procs[q].pc = "statsUpdate"
                  => \A k \in 1..Len(accessStats) :
                        accessStats'[k] # accessStats[k]
                            => accessStats[k].IPAddress = r.ip]_vars

\* C23, for a code deleted earlier: with no backend failure, a CreateShortCode
\* with a valid URL and a well-formed custom code that was created and then
\* deleted returns success or ErrCodeExists, nothing else.
C23_TwoOutcomes ==
    [][\A p \in Pids :
          (/\ Returns(p, "Create")
           /\ procs[p].i = 0
           /\ isValidURL(procs[p].url) /\ isValidCode(procs[p].code)
           /\ procs[p].code \in deletedOK
           /\ faultBudget' = MaxFaults)
              => procs'[p].res \in {"nil", "ErrCodeExists"}]_vars

C25_CacheAside ==
    [][\A p \in Pids :
          (procs[p].op = "Get" /\ procs'[p] # procs[p]) =>
            /\ (/\ procs[p].pc = "cacheGet"
                 /\ \/ CacheLookup(procs[p].code) = {}
                    \/ faultBudget' < faultBudget)
                  => /\ procs'[p].pc = "dbQuery"
                     /\ cache' = cache
            /\ (procs[p].pc = "dbQuery" /\ faultBudget' = faultBudget)
                  => IF LiveRowsByCode(procs[p].code) = {}
                       THEN /\ procs'[p].pc = "done"
                            /\ procs'[p].res = "ErrCodeNotFound"
                       ELSE /\ procs'[p].pc = "cacheSet"
                            /\ \E id \in LiveRowsByCode(procs[p].code) :
                                  procs'[p].rec = {shortCodes[id]}
            /\ procs[p].pc = "cacheSet"
                  => /\ procs'[p].pc = "done"
                     /\ procs'[p].res = "nil"
                     /\ \E row \in procs[p].rec :
                           procs'[p].out = row.OriginalURL
                     /\ faultBudget' < faultBudget => cache' = cache]_vars

\* C25 witness: a lookup whose cached value did not deserialize was answered
\* from the database with the created URL
C25_Witness ==
    \E p \in Pids :
        /\ Done(p, "Get") /\ procs[p].err = "unmarshal error"
        /\ procs[p].res = "nil" /\ ~procs[p].hit
        /\ created[procs[p].code] = {procs[p].out}

\* C26: the step at which a RecordClick fails in a backend changes no table
\* and no other call, so what its earlier steps wrote stays; and a redirect
\* whose GetOriginalURL succeeded is answered with 301 whatever became of
\* its click recording.
C26_NoRollback ==
    [][\A q \in Pids :
          /\ (Returns(q, "Click") /\ procs'[q].cause = "backend")
                => /\ UNCHANGED <<shortCodes, clickLogs, accessStats>>
                   /\ \A p \in Pids \ {q} : procs'[p] = procs[p]
          /\ (Returns(q, "Redirect") /\ procs[q].pc = "redirect")
                => procs'[q].res = "301"]_vars

\* C26 witness: the click recording of an answered redirect has failed at
\* its log insert, and the counter holds the increment made before
C26_Witness ==
    \E p, q \in Pids :
        /\ Done(p, "Redirect") /\ procs[p].res = "301"
        /\ Done(q, "Click") /\ procs[q].res = "failed to log click"
        /\ clickLogs = <<>>
        /\ \E id \in RowsByCode(procs[q].code) : shortCodes[id].ClickCount = 1

\* C27: with no backend failure, no deletion and no expiry, once the click
\* recordings in flight have ended the code has one click_logs row per
\* redirect that was answered from a found record and its counter equals
\* their number; and the n-th such redirect is eventually followed by a
\* state with at least n click_logs rows and a counter of at least n.
C27_ClicksRecorded ==
    /\ [](InFlight("Click") = {} =>
            /\ Len(clickLogs) = clicksOK
            /\ \A id \in RowsByCode(K1) : shortCodes[id].ClickCount = clicksOK)
    /\ \A n \in 1..MaxClicks :
          (clicksOK = n) ~>
              /\ Len(clickLogs) >= n
              /\ \E id \in RowsByCode(K1) : shortCodes[id].ClickCount >= n

\* C27 witness: two redirects have been answered with 301 and both are
\* recorded: two click_logs rows, counter 2
C27_Witness ==
    /\ clicksOK = 2 /\ Len(clickLogs) = 2 /\ InFlight("Click") = {}
    /\ \E p \in Pids : Done(p, "Redirect") /\ procs[p].res = "301"
    /\ \E id \in RowsByCode(K1) : shortCodes[id].ClickCount = 2

\* C28: no step lowers the click counter of a record, and a step that
\* changes it is the counter update of a RecordClick for that record, which
\* raises it by one.
C28_CounterMonotone ==
    [][\A id \in Ids :
          /\ shortCodes'[id].ClickCount >= shortCodes[id].ClickCount
          /\ shortCodes'[id].ClickCount # shortCodes[id].ClickCount
                => /\ shortCodes'[id].ClickCount = shortCodes[id].ClickCount + 1
                   /\ \E p \in Pids :
                         /\ procs[p].op = "Click"
                         /\ procs[p].pc = "updateCount"
                         /\ procs'[p].pc = "logClick"
                         /\ \E fetched \in procs[p].rec : fetched.ID = id]_vars

\* C28 witness: a record that counted two clicks has been deleted, with its
\* counter unchanged, and its statistics have been asked for
C28_Witness ==
    /\ \E id \in Ids : shortCodes[id].DeletedAt /\ shortCodes[id].ClickCount = 2
    /\ \E p \in Pids : Done(p, "Detailed") \/ Done(p, "Stats") \/ Done(p, "Get")

\* C29: in every window of every client at most rate admission checks have
\* been admitted, and every entry of the visitor table holds a request
\* count from 1 to rate.
C29_AtMostRate ==
    \A ip \in ClientIPs :
        /\ \A e \in rlHist[ip] : e.ok <= rate
        /\ \A v \in visitors[ip] : 1 <= v.requests /\ v.requests <= rate

\* C29 witness: in a window that followed an elapsed one, a client has been
\* admitted rate times and rejected twice, its entry holding rate requests
C29_Witness ==
    \E ip \in ClientIPs :
        /\ \E e \in rlHist[ip] : e.reopened /\ e.ok = rate /\ e.n = rate + 2
        /\ \E v \in visitors[ip] : v.requests = rate

\* C30: at most one goroutine, Allow or the sweep, is between its Lock and
\* its Unlock of rl.mu; and of the K Allow calls of a client that have
\* returned, all in the client's first window and with none of its calls
\* inside, exactly min(K, rate) were admitted.
C30_SerializedAdmission ==
    /\ Cardinality(mu) <= 1
    /\ \A g \in 0..NumCallers : g \in mu <=> rlCalls[g].pc = "locked"
    /\ \A ip \in ClientIPs :
          LET mine == {g \in Callers : rlCalls[g].ip = ip}
              K == Cardinality(mine)
          IN  (rlNow <= window /\ \A g \in mine : rlCalls[g].pc = "done")
                  => Cardinality({g \in mine : rlCalls[g].res})
                         = IF K < rate THEN K ELSE rate

\* C30 witness: more calls than rate, all of one client and in one window,
\* have returned while the sweep holds the lock, and rate of them were
\* admitted
C30_Witness ==
    \E ip \in ClientIPs :
        /\ \A g \in Callers : rlCalls[g].pc = "done" /\ rlCalls[g].ip = ip
        /\ NumCallers > rate
        /\ Cardinality({g \in Callers : rlCalls[g].res}) = rate
        /\ rlNow <= window
        /\ mu = {0}

\* C31: the sweep is invisible to admission.  In every state reached by
\* admission checks, clock advances and sweeps in any order, a check of any
\* client gets the answer it gets from the limiter that was given the same
\* checks at the same times and was never swept; both limiters hold the
\* same entry for every client whose window is still open.
C31_SweepInvisible ==
    \A ip \in ClientIPs :
        LET Admits(vs) == \/ vs = {}
                          \/ \E v \in vs : After(rlNow, v.resetTime)
                          \/ \E v \in vs : UnderRate(v)
            Open(vs) == {v \in vs : ~After(rlNow, v.resetTime)}
        IN  /\ Admits(visitors[ip]) = Admits(unswept[ip])
            /\ Open(visitors[ip]) = Open(unswept[ip])
            /\ \A e \in rlHist[ip] : \A v \in Open(unswept[ip]) :
                   e.admitted <=> e.n <= v.requests

\* C31 witness: the sweep has deleted the entry of a client that had been
\* rejected, and another client, whose entry was deleted and which was
\* admitted in a new window, is rejected again
C31_Witness ==
    \E ip1, ip2 \in ClientIPs :
        /\ visitors[ip1] = {} /\ unswept[ip1] # {}
        /\ \E e \in rlHist[ip1] : ~e.admitted
        /\ \E e \in rlHist[ip2] : e.reopened /\ ~e.admitted
        /\ visitors[ip2] # {}

\* C32: a pass of the sweep deletes exactly the entries whose window had
\* elapsed at the time the sweep read under the lock, and leaves every
\* other entry as it was: right after the pass the table holds only
\* entries whose window was still open at that time.
C32_SweepExact ==
    [][(rlCalls[0].pc = "locked" /\ rlCalls'[0].pc = "idle") =>
          \A ip \in ClientIPs :
             LET elapsed == {v \in visitors[ip] : After(rlCalls[0].t, v.resetTime)}
             IN  /\ visitors'[ip] = visitors[ip] \ elapsed
                 /\ \A v \in visitors'[ip] : rlCalls[0].t <= v.resetTime]_vars

\* C32 witness: a pass of the sweep has ended that deleted the entry of
\* one client, whose window had elapsed, and kept the entry of another,
\* whose window is open
C32_Witness ==
    \E ip1, ip2 \in ClientIPs :
        /\ rlCalls[0].pc = "idle" /\ mu = {}
        /\ visitors[ip1] = {} /\ \E v \in unswept[ip1] : After(rlNow, v.resetTime)
        /\ visitors[ip2] # {} /\ visitors[ip2] = unswept[ip2]
        /\ \A v \in visitors[ip2] : ~After(rlNow, v.resetTime)

\* C33: the step in which the rate limiter rejects a request changes no
\* table of the durable store and no cache entry, and the rejected request
\* never becomes a call of the service: its slot holds the 429 answer until
\* the next request arrives at the middleware.
C33_RejectedTouchesNothing ==
    [][\A p \in Pids :
          /\ (procs'[p].res = "rate_limit_exceeded" /\ procs'[p] # procs[p])
                => /\ UNCHANGED <<shortCodes, clickLogs, accessStats, cache>>
                   /\ procs'[p].op = "Request" /\ procs'[p].pc = "done"
          /\ procs[p].res = "rate_limit_exceeded"
                => procs'[p] = procs[p] \/ procs'[p].op = "Request"]_vars

\* C33 witness: a request has been rejected while the code exists, is
\* cached, and a request that was admitted is inside the service
C33_Witness ==
    \E p, q \in Pids :
        /\ procs[p].op = "Request" /\ procs[p].res = "rate_limit_exceeded"
        /\ procs[q].op \in {"Get", "Delete"} /\ procs[q].pc # "done"
        /\ LiveRowsByCode(K1) # {} /\ cache[K1] # {}

\* C34: the existence check of CreateShortCode answers from the durable
\* store alone: unless the query itself fails, the creation is rejected
\* with ErrCodeExists exactly when short_codes holds a non-deleted row of
\* the code, whether or not the cache holds an entry of the code; the
\* check leaves the cache as it is.
C34_ExistenceFromStore ==
    [][\A p \in Pids :
          (/\ procs[p].pc = "codeExists" /\ procs'[p].pc # "codeExists"
           /\ procs'[p].cause # "backend")
              => /\ procs'[p].res = "ErrCodeExists" <=> RowsByCode(procs[p].code) # {}
                 /\ procs'[p].res # "ErrCodeExists" => procs'[p].pc = "insert"
                 /\ cache' = cache]_vars

\* C34 witness: the existence check of a creation has found no row of a
\* code whose deleted record is still held, unexpired, by the cache
C34_Witness ==
    \E p \in Pids :
        /\ procs[p].op = "Create" /\ procs[p].pc = "insert" /\ procs[p].code = K1
        /\ procs[p].afterDel
        /\ RowsByCode(K1) = {}
        /\ CacheLookup(K1) # {}
        /\ \A q \in Pids \ {p} : Done(q, "Get")

\* C35: the insert of CreateShortCode and the counter update of
\* UpdateClickCount leave every cache entry as it is, whether they succeed
\* or fail; a creation that succeeds leaves no cache entry of its code.
C35_WritesLeaveCache ==
    [][\A p \in Pids :
          /\ (\/ procs[p].pc = "insert" /\ procs'[p].pc # "insert"
              \/ procs[p].pc = "updateCount" /\ procs'[p].pc # "updateCount")
                => cache' = cache
          /\ (Returns(p, "Create") /\ procs'[p].res = "nil")
                => cache'[procs[p].code] = {}]_vars

\* C35 witness: a code was created and clicked, the counter of its record
\* was raised, and the cache still holds the copy read before the update
C35_Witness ==
    /\ created[K1] # {}
    /\ \E id \in LiveRowsByCode(K1) :
          /\ shortCodes[id].ClickCount = 1
          /\ \E e \in CacheLookup(K1) : e.val.ClickCount = 0
    /\ \E p \in Pids : procs[p].op = "Click" /\ procs[p].pc = "logClick"

\* C36 (as stated): every click of a private or loopback client address is
\* recorded with the location Private/Local/Local, found without a call of
\* the geolocation service.
C36_PrivateNeverLookedUp ==
    \A k \in 1..Len(accessStats) :
        accessStats[k].IPAddress \in {IPLocal, IPUniqueLocal}
            => accessStats[k].Location = PrivateLocation

\* C36: geolocation never makes RecordClick fail.  For a client address in
\* the ranges isPrivateIP lists (here 127.0.0.1) the location is
\* Private/Local/Local whatever the geolocation service would answer; for
\* every other address (here 8.8.8.8 and fd00::1) it is the service's
\* answer or, when the lookup fails, Unknown/Unknown/Unknown.  In
\* both cases the call goes on to the statistics: with no backend failure
\* every RecordClick returns nil, and the access counts of the statistics
\* rows add up to the calls that have come to that point.
C36_GeolocationNeverFails ==
    LET Located(ip, loc) == IF ip = IPLocal THEN loc = PrivateLocation
                            ELSE loc \in GeoAnswers \cup {UnknownLocation}
    IN  /\ \A p \in Pids : Done(p, "Click") => procs[p].res = "nil"
        /\ \A p \in InFlight("Click") :
              procs[p].pc \in {"statsFind", "statsCreate", "statsUpdate"}
                  => Located(procs[p].ip, procs[p].loc)
        /\ \A k \in 1..Len(accessStats) :
              Located(accessStats[k].IPAddress, accessStats[k].Location)
        /\ SumCounts(1..Len(accessStats)) = clicksOK - Cardinality(InFlight("Click"))

\* C36 witness: clicks of the loopback address and of an address whose
\* lookup failed have both returned nil and left their statistics rows
C36_Witness ==
    /\ \A p \in Pids : Done(p, "Click") /\ procs[p].res = "nil"
    /\ \E k \in 1..Len(accessStats) :
          accessStats[k].IPAddress = IPLocal /\ accessStats[k].Location = PrivateLocation
    /\ \E k \in 1..Len(accessStats) :
          /\ accessStats[k].IPAddress \in {IPPublic, IPUniqueLocal}
          /\ accessStats[k].Location = UnknownLocation

\* C37: a GetDetailedStats that runs while no click is being recorded
\* answers from the same accesses in all its sub-queries: with hours = 0
\* from every click of the code, with hours = h > 0 from the clicks of the
\* last h hours, so that the unique IPs, the hourly series, the location
\* breakdown and the recent accesses are empty together or not at all.
C37_SubQueriesAgree ==
    [][\A p \in Pids :
          (/\ procs[p].pc = "detailedRecent" /\ procs'[p].pc = "done"
           /\ procs'[p].res = "nil"
           /\ procs[p].seen = clicksOK /\ InFlight("Click") = {})
              => \A st \in procs'[p].stats :
                   LET logs == {j \in 1..Len(clickLogs) :
                                   /\ clickLogs[j].ShortCodeID = BaseID(p)
                                   /\ \A t \in procs[p].start :
                                         clickLogs[j].CreatedAt >= t}
                       any == logs # {}
                   IN  /\ procs[p].h = 0 => Cardinality(logs) = clicksOK
                       /\ (st.UniqueIPs > 0) = any
                       /\ (st.HourlyStats # <<>>) = any
                       /\ (st.LocationStats # <<>>) = any
                       /\ (st.RecentAccesses # <<>>) = any]_vars

\* C38: every cache entry of a code is a copy of a record of that code:
\* the lookup that wrote it had read the record from short_codes while the
\* record was neither deleted nor expired, and wrote its fields unchanged;
\* no entry is written in any other way, and the cache holds no entry of a
\* code that was never created.
C38_CacheHoldsCopies ==
    [][/\ \A p \in Pids :
            (procs[p].pc = "dbQuery" /\ procs'[p].pc = "cacheSet")
                => \E id \in Ids :
                      /\ procs'[p].rec = {shortCodes[id]}
                      /\ shortCodes[id].Code = procs[p].code
                      /\ ~shortCodes[id].DeletedAt
                      /\ NotExpiredAt(shortCodes[id], now)
       /\ \A code \in AllCodes :
            (cache'[code] # cache[code] /\ cache'[code] # {})
                => \E p \in Pids : \E row \in procs[p].rec :
                      /\ procs[p].pc = "cacheSet" /\ procs[p].code = code
                      /\ \A e \in cache'[code] :
                            /\ e.exp = now + CacheTTL
                            /\ e.val.ID = row.ID
                            /\ e.val.Code = row.Code
                            /\ e.val.OriginalURL = row.OriginalURL
                            /\ e.val.ExpiresAt = row.ExpiresAt
                            /\ e.val.ClickCount = row.ClickCount
                            /\ e.val.LastAccessedAt = row.LastAccessedAt
       /\ \A code \in AllCodes : \A e \in cache'[code] :
            /\ created'[code] # {}
            /\ \E id \in 1..Len(shortCodes') :
                  /\ shortCodes'[id].Code = code
                  /\ e.val.ID = id /\ e.val.Code = code
                  /\ e.val.OriginalURL = shortCodes'[id].OriginalURL
                  /\ e.val.ExpiresAt = shortCodes'[id].ExpiresAt]_vars

\* C38 witness: the cache holds the copy of a record that was deleted
\* after a lookup had read it, and a lookup has returned that copy
C38_Witness ==
    /\ K1 \in deletedOK
    /\ \E e \in cache[K1] : shortCodes[e.val.ID].DeletedAt /\ e.exp > now
    /\ \E p \in Pids : Done(p, "Get") /\ procs[p].hit /\ procs[p].afterDel

\* C39: every goroutine that the timeout middleware starts to run the rest
\* of the chain ends, also when the timeout passes before c.Next() has
\* returned.
C39_GoroutineEnds ==
    \A g \in Callers : (rlCalls[g].go = "next") ~> (rlCalls[g].go = "exited")
====
